---------------------------- MODULE Spec2Model ----------------------------
(***************************************************************************)
(* A model of the klaas host runtime: the reconnecting, message-queuing    *)
(* WebSocket transport (src/src/websocket.rs) and the session event loop   *)
(* that drives it (src/src/app.rs).                                        *)
(*                                                                         *)
(* Time is a clock in seconds.  A handler runs with the client lock held   *)
(* and is one atomic step; the receiver task is two steps (the receive     *)
(* under the lock, then the store to the connection state) because the     *)
(* lock is released between them.                                          *)
(***************************************************************************)
EXTENDS Integers, Sequences, FiniteSets, TLC

\* --------------------------------------------------------------- constants
\* websocket.rs:35
MAX_RECONNECT_ATTEMPTS == 10
\* websocket.rs:38 (milliseconds)
BASE_BACKOFF_MS == 500
\* websocket.rs:41 (milliseconds)
MAX_BACKOFF_MS == 30000
\* websocket.rs:44
MAX_QUEUE_SIZE == 100
\* websocket.rs:47, Duration::from_secs(5 * 60), in seconds
MAX_QUEUE_AGE == 300
\* websocket.rs:550, the exclusive upper end of gen_range(0..1000)
JITTER_RANGE_MS == 1000
\* app.rs:347, the initial value of reconnect_backoff_secs
INITIAL_RECONNECT_BACKOFF_SECS == 1
\* app.rs:348
MAX_RECONNECT_BACKOFF_SECS == 60
\* crypto.rs:45, the bytes of an AES-GCM nonce
NONCE_SIZE == 12
\* crypto.rs:51, the bytes of an AES-GCM tag
TAG_SIZE == 16

\* ------------------------------------------------------------------ bounds
\* how many times the clock advances
MaxTicks == 2
\* how many bursts of send_output calls the transport-level caller makes
MaxBursts == 3
\* how many sockets the transport-level specification opens
MaxQSockets == 2

\* how many output chunks the PTY produces
MaxOutputs == 2
\* how many sockets the runtime opens, the first one included
MaxSockets == 3
\* how many frames the server sends
MaxInbound == 1
\* how many consecutive calls of handle_reconnection_silent may fail
MaxFailures == 2

\* how many consecutive calls of handle_reconnection_silent may fail while
\* the relay stays unreachable
MaxRetryFailures == 11

\* how many encrypted prompts the relay delivers
MaxPrompts == 2
\* how long a plaintext is at most, in bytes
MaxPlainLen == 2

MaxFlows == 2

MaxPolls == 3

MaxLateSleeps == 2

MaxRuns == 2

MaxKeys == 3

MaxAdvances == 4

\* how many lines are typed into the command interceptor
MaxLines == 2

\* the clock advances by half the maximum age: two advances expire an entry
TickStep == MAX_QUEUE_AGE \div 2
\* the sizes of a burst of back-to-back send_output calls
BurstSizes == {1, MAX_QUEUE_SIZE - 1}

VARIABLES
    \* ---- WebSocketClient (websocket.rs)
    message_queue,      \* WebSocketClient.message_queue: Seq of QueuedMessage
    is_connected,       \* WebSocketClient.is_connected
    reconnect_attempt,  \* WebSocketClient.reconnect_attempt
    sock,               \* the client's current socket: "alive", "severed" (the
                        \* network lost it or a write on it failed) or "closed"
                        \* (the server closed it)
    \* ---- run() (app.rs)
    ws_client,          \* "Some" or "None": the Option<WebSocketClient>
    connection_state,   \* ConnectionState
    recv_result,        \* the receiver task's recv_result, held between the
                        \* recv under the client lock and the match on it
    ws_msgs,            \* how many Ping messages wait in the ws_msg channel
    mainPc,             \* where the main loop is: "select", "fresh", "done"
    reconnect_backoff_secs,
    \* ---- environment and bookkeeping
    now,                \* Instant::now(), seconds
    ticks,              \* how many times the clock has advanced
    produced,           \* how many output messages have been produced
    bursts,             \* how many bursts the transport-level caller made
    sockets,            \* how many sockets have been opened
    inbound,            \* how many frames the server has sent
    failures,           \* consecutive failed calls of handle_reconnection_silent
    wire,               \* the frames written to the current socket, in order
    delivered,          \* the ids of the outputs written to a live socket
    delay_ms,           \* the delay reconnect() last slept, milliseconds
    delay_attempt,      \* the attempt number that delay was computed for
    lastEnqueueAt,      \* the clock at the most recent queue_message
    lastEnqueueLen,     \* the queue's length just before the most recent enqueue
    lastBurst,          \* how many messages the most recent enqueue pushed
    lastDrain,          \* the entries the most recent drain wrote to the socket
    lastDrainAt,        \* the clock at the most recent drain
    lastDrainDropped,   \* how many entries the most recent drain dropped as expired
    \* ---- the child, the PTY tasks and the end of run() (app.rs)
    child,              \* the child process: [exited, code]
    reader,             \* the PTY reader task: "reading" or "done"
    shutdown_rx,        \* the shutdown channel: the codes sent and not yet received
    pty_input,          \* the PTY-input channel: "open" or "closed"
    exit_code,          \* the code the main loop broke with
    run_result,         \* what run() returned: [tag, code]; the tag is "none",
                        \* "Ok", or the CliError variant
    \* ---- end-to-end encryption in WebSocketClient (websocket.rs)
    session_id,         \* WebSocketClient.session_id
    mek,                \* WebSocketClient.mek: [some, v]
    session_key,        \* WebSocketClient.session_key, the cache: [some, v]
    userPc,             \* where the caller of get_or_derive_session_key is
    userOp,             \* what that caller is doing: "send" or "decrypt"
    userKey,            \* the key that caller has derived and not yet cached
    setPc,              \* where the caller of set_mek is
    setArg,             \* the MEK that caller is setting
    chunks,             \* the PTY chunks handed to send_output, by id
    ws_msg_rx,          \* the encrypted prompts waiting in the ws_msg channel
    pty_input_rx,       \* the texts sent on the PTY-input channel
    prompts,            \* how many prompts the relay has delivered
    \* ---- one encryption and one decryption (crypto.rs)
    enc_mek,            \* the MEK the encrypting side derives its key from
    enc_session,        \* the session id the encrypting side derives it for
    enc_plain,          \* the bytes to encrypt
    enc_envelope,       \* the EncryptedContent made of them: [some, v]
    dec_key,            \* the session key given to decrypt_content
    decrypted,          \* what decrypt_content returned: [some, v]
    \* ---- the guest terminal (guest/terminal.rs)
    guest_stdout,       \* the chunks the guest has written to stdout, in order
    guest_seen,         \* the envelopes the guest has been sent, in order
    guest_running,      \* whether the guest's event loop goes on
    guest_kinds,        \* for each of those envelopes, "history" or "output"
    input_buffer,       \* the guest's input_buffer, as bytes
    guest_sent,         \* the prompt envelopes the guest has sent, in order
    keys,               \* how many terminal events the guest has read
    last_key,           \* the latest of them
    guest_end,          \* why the guest's event loop ended: "none", "ctrl_q",
                        \* "detached", "closed", "error", "ws_ping", "ws_pong"
                        \* or "write_failed"
    guest_pings,        \* how many JSON ping messages the guest has received
    guest_frames,       \* the frames other than prompts the guest has
                        \* written: "pong" or "ws_pong"
    \* ---- the device flow (auth.rs)
    authPc,             \* where authenticate() is: "start", "poll" or "done"
    auth_result,        \* what authenticate() returned: "none", "Ok" or the
                        \* AuthError variant
    device_flows,       \* how many device codes have been requested
    device_code,        \* the device code polling uses (0: none yet)
    elapsed_ms,         \* start_time.elapsed(), milliseconds
    current_interval_secs, \* poll_for_token's current_interval_secs
    ticks_until_poll,   \* poll_for_token's ticks_until_poll
    expires_in,         \* the lifetime of the device code, seconds
    late_sleeps,        \* how many sleeps took longer than asked
    polls,              \* how many token requests have been made
    last_poll,          \* the latest token request: [some, at, code, answer,
                        \* after], at in milliseconds since start_time, after
                        \* the answer to the request before it
    cursor_hidden,      \* whether the cursor is hidden
    poll_gap,           \* the latest token request against the one before it
                        \* in the same poll_for_token: [some, ms, interval,
                        \* slowed]
    \* ---- the credential store (credentials.rs) and the start of run() (app.rs)
    startPc,            \* where run() is: "auth", "session", "terminal",
                        \* "hooks", "spawn", "connect", "running" or "ended"
    runs,               \* how many times the program has been started
    use_keychain,       \* CredentialStore.use_keychain
    stored_tokens,      \* the stored access and refresh token pair: [some, v]
    stored_mek,         \* the stored MEK: [some, v]
    stored_session,     \* the stored session id: [some, v]
    next_token,         \* the next token pair the server issues
    next_session,       \* the next ULID SessionId::new() makes
    attempt,            \* what try_authenticate_with_mek returned: [tag, token,
                        \* mek, warned]
    rejected,           \* the token pairs a refresh was answered invalid_grant for
    reuse,              \* whether a pair was used after it was rejected
    ensure_log,         \* about this run's ensure_authenticated_with_mek:
                        \* [invalid_grant, cleared, flow]
    resume,             \* run()'s resume argument
    run_session,        \* the SessionId run() uses: [some, v]
    session_log,        \* about this run's get_or_create_session_id:
                        \* [called, resume, before, ok]
    term,               \* the TerminalManager: "none", "alive" or "dropped"
    was_raw,            \* TerminalManager.was_raw
    tty_raw,            \* whether the terminal is in raw mode
    tty_paste,          \* whether the terminal has bracketed paste on
    spawned,            \* whether the child has been spawned in the PTY
    hook_token,         \* the hook token in the child's environment: [some, v]
    \* ---- the main loop in time (app.rs)
    loopPc,             \* where the main loop is: "select", "checked" (the tick
                        \* arm has read the state and found an attempt due),
                        \* "sleeping" (in reconnect()'s sleep) or "fresh"
    clock_ms,           \* the time since the loop was entered, milliseconds
    select_at,          \* when the loop last entered its select
    wake_at,            \* when reconnect()'s sleep ends
    last_reconnect_attempt, \* run()'s last_reconnect_attempt, milliseconds
    output_rx,          \* the PTY-output channel: [id, at] of each chunk the
                        \* reader has sent and the loop has not yet received
    advances,           \* how many times clock_ms has advanced
    attempt_log,        \* the latest call of handle_reconnection_silent():
                        \* [some, kind, state], some whether a connection
                        \* attempt was started, kind "reconnect", "fresh" or
                        \* "auth_error", state the connection state then
    \* ---- the async mutexes of the host (app.rs, websocket.rs)
    taskPath,           \* per task, the path through its code it is on
    taskPc,             \* per task, the next operation of that path
    guards,             \* per task, the mutexes whose guard it holds
    abort_requested,    \* ws_recv_handle.abort() has been called
    \* ---- CommandInterceptor (interceptor.rs)
    interceptor_state,  \* CommandInterceptor.state
    buffer,             \* CommandInterceptor.buffer, a Seq of chars
    at_line_start,      \* CommandInterceptor.at_line_start
    forward,            \* every byte process() and check_timeout() have
                        \* returned for the PTY, in order
    cmd_rx,             \* the commands sent on cmd_tx, in order
    typing,             \* the bytes of the line being typed not yet read
    lines_typed         \* how many lines have been started

clientVars == <<message_queue, is_connected, reconnect_attempt, sock>>

appVars == <<ws_client, connection_state, recv_result, ws_msgs, mainPc,
             reconnect_backoff_secs>>

envVars == <<inbound, failures, wire, delivered>>

backoffVars == <<delay_ms, delay_attempt>>

queueGhostVars == <<lastEnqueueAt, lastEnqueueLen, lastBurst, lastDrain,
                    lastDrainAt, lastDrainDropped>>

exitVars == <<child, reader, shutdown_rx, pty_input, exit_code, run_result>>

\* the variables only the later specifications move
keyVars == <<session_id, mek, session_key, userPc, userOp, userKey, setPc,
            setArg, chunks, ws_msg_rx, pty_input_rx, prompts>>

cryptoVars == <<enc_mek, enc_session, enc_plain, enc_envelope, dec_key,
               decrypted>>

\* what the end of run() leaves alone, and what the key handling leaves alone
guestVars == <<guest_stdout, guest_seen, guest_running, guest_kinds,
              input_buffer, guest_sent, keys, last_key, guest_end,
              guest_pings, guest_frames>>

authVars == <<authPc, auth_result, device_flows, device_code, elapsed_ms,
             current_interval_secs, ticks_until_poll, expires_in, late_sleeps,
             polls,
             last_poll, poll_gap, cursor_hidden>>

\* the variables of start-up, which the running session leaves alone
credVars == <<use_keychain, stored_tokens, stored_mek, stored_session,
             next_token, next_session, rejected, reuse>>

termVars == <<term, was_raw, tty_raw, tty_paste>>

startVars == <<startPc, runs, attempt, ensure_log, resume, run_session,
              session_log, spawned, hook_token>>

loopVars == <<loopPc, clock_ms, select_at, wake_at, last_reconnect_attempt,
             output_rx, advances, attempt_log>>

\* which guards each task of the host holds, and where it is in its code
lockVars == <<taskPath, taskPc, guards, abort_requested>>

interceptVars == <<interceptor_state, buffer, at_line_start, forward, cmd_rx,
                   typing, lines_typed>>

tailVars == <<lockVars, interceptVars>>

laterVars == <<authVars, credVars, termVars, startVars, loopVars, tailVars>>

notExitVars == <<keyVars, cryptoVars, guestVars, laterVars>>

notKeyVars == <<cryptoVars, guestVars, laterVars>>

extraVars == <<exitVars, keyVars, cryptoVars, guestVars, laterVars>>

vars == <<clientVars, appVars, envVars, backoffVars, queueGhostVars,
          now, ticks, produced, bursts, sockets, extraVars>>

\* ------------------------------------------------------------ the queue
OutputMsg(id) == [kind |-> "output", id |-> id]

QueuedMessage(msg, t) == [message |-> msg, timestamp |-> t]

\* now.duration_since(m.timestamp) < MAX_QUEUE_AGE
Fresh(m, t) == t - m.timestamp < MAX_QUEUE_AGE

\* pop_back instead of pop_front
TrimBack(q) == IF Len(q) > MAX_QUEUE_SIZE THEN SubSeq(q, 1, MAX_QUEUE_SIZE) ELSE q

\* no trimming at all
TrimNone(q) == q

\* queue.retain(|m| now.duration_since(m.timestamp) < MAX_QUEUE_AGE)
Retain(q, t) == SelectSeq(q, LAMBDA m : Fresh(m, t))

\* while queue.len() > MAX_QUEUE_SIZE { queue.pop_front(); }
\* (the loop's result: the last MAX_QUEUE_SIZE entries)
Trim(q) ==
    IF Len(q) > MAX_QUEUE_SIZE
    THEN SubSeq(q, Len(q) - MAX_QUEUE_SIZE + 1, Len(q))
    ELSE q

\* push_front instead of push_back
queue_message_Front(q, msg, t) ==
    Trim(<<QueuedMessage(msg, t)>> \o Retain(q, t))

\* queue_message: prune the expired, push_back, trim from the front
queue_message(q, msg, t) == Trim(Append(Retain(q, t), QueuedMessage(msg, t)))

\* k back-to-back send_output calls that all reach queue_message at the same
\* instant, for the outputs id+1 .. id+k: the first call prunes, every call
\* pushes one entry, and the trimming leaves the last MAX_QUEUE_SIZE entries
QueueBurst(q, id, k, t) ==
    IF k = 1 THEN queue_message(q, OutputMsg(id + 1), t)
    ELSE Trim(Retain(q, t) \o [i \in 1..k |-> QueuedMessage(OutputMsg(id + i), t)])

\* the indices of the entries a drain at time t would send, in queue order
FreshIdx(q, t) == SelectSeq([i \in 1..Len(q) |-> i], LAMBDA i : Fresh(q[i], t))

drain_message_queue_NoExpiry(q, t, budget) ==
    IF Len(q) <= budget
    THEN [sent |-> q, dropped |-> 0, queue |-> <<>>, ok |-> TRUE]
    ELSE [sent |-> SubSeq(q, 1, budget), dropped |-> 0,
          queue |-> SubSeq(q, budget + 1, Len(q)), ok |-> FALSE]

\* drain_message_queue with `budget` sends succeeding before the socket fails:
\* pop_front; an expired entry is skipped; a failed send pushes its entry back
\* to the front and returns Err.  The result is what was written, how many
\* entries were dropped as expired, what is left in the queue, and whether the
\* drain returned Ok.  The send that fails is that of entry F[budget + 1].
drain_message_queue(q, t, budget) ==
    LET F == FreshIdx(q, t)
    IN  IF Len(F) <= budget
        THEN [sent |-> [k \in 1..Len(F) |-> q[F[k]]], dropped |-> Len(q) - Len(F),
              queue |-> <<>>, ok |-> TRUE]
        ELSE LET p == F[budget + 1]
             IN  [sent |-> [k \in 1..budget |-> q[F[k]]],
                  dropped |-> (p - 1) - budget,
                  queue |-> SubSeq(q, p, Len(q)), ok |-> FALSE]

\* ------------------------------------------- the transport on its own
\* A connected WebSocketClient whose caller sends bursts of output while the
\* connection comes and goes.
\* the event loop, the environment and the backoff bookkeeping at rest
AppIdle ==
    /\ ws_client = "Some"
    /\ connection_state = "Attached"
    /\ recv_result = "idle"
    /\ ws_msgs = 0
    /\ mainPc = "select"
    /\ reconnect_backoff_secs = INITIAL_RECONNECT_BACKOFF_SECS

EnvIdle ==
    /\ inbound = 0
    /\ failures = 0
    /\ wire = <<>>
    /\ delivered = <<>>

BackoffIdle ==
    /\ delay_ms = 0
    /\ delay_attempt = 0

QueueGhostIdle ==
    /\ lastEnqueueAt = 0
    /\ lastEnqueueLen = 0
    /\ lastBurst = 0
    /\ lastDrain = <<>>
    /\ lastDrainAt = 0
    /\ lastDrainDropped = 0

\* the child running, the PTY tasks running, run() not returned
ExitIdle ==
    /\ child = [exited |-> FALSE, code |-> 0]
    /\ reader = "reading"
    /\ shutdown_rx = <<>>
    /\ pty_input = "open"
    /\ exit_code = 0
    /\ run_result = [tag |-> "none", code |-> 0]

None == [some |-> FALSE, v |-> 0]

Some(x) == [some |-> TRUE, v |-> x]

\* the client as connect_websocket() hands it over, nobody calling into it
KeyIdle ==
    /\ session_id = 1
    /\ mek = Some(1)
    /\ session_key = None
    /\ userPc = "idle"
    /\ userOp = "send"
    /\ userKey = 0
    /\ setPc = "idle"
    /\ setArg = 0
    /\ chunks = <<>>
    /\ ws_msg_rx = <<>>
    /\ pty_input_rx = <<>>
    /\ prompts = 0

\* nothing encrypted yet
CryptoIdle ==
    /\ enc_mek = 1
    /\ enc_session = 1
    /\ enc_plain = <<>>
    /\ enc_envelope = None
    /\ dec_key = 0
    /\ decrypted = None

\* a guest that has received nothing yet
GuestIdle ==
    /\ guest_stdout = <<>>
    /\ guest_seen = <<>>
    /\ guest_running = TRUE
    /\ guest_kinds = <<>>
    /\ input_buffer = <<>>
    /\ guest_sent = <<>>
    /\ keys = 0
    /\ last_key = "none"
    /\ guest_end = "none"
    /\ guest_pings = 0
    /\ guest_frames = <<>>

\* authenticate() not yet called
AuthIdle ==
    /\ authPc = "start"
    /\ auth_result = "none"
    /\ device_flows = 0
    /\ device_code = 0
    /\ elapsed_ms = 0
    /\ current_interval_secs = 0
    /\ ticks_until_poll = 0
    /\ expires_in = 0
    /\ late_sleeps = 0
    /\ polls = 0
    /\ last_poll = [some |-> FALSE, at |-> 0, code |-> 0, answer |-> "none",
                    after |-> "none"]
    /\ poll_gap = [some |-> FALSE, ms |-> 0, interval |-> 0, slowed |-> FALSE]
    /\ cursor_hidden = FALSE

\* an empty credential store
CredIdle ==
    /\ use_keychain = TRUE
    /\ stored_tokens = None
    /\ stored_mek = None
    /\ stored_session = None
    /\ next_token = 1
    /\ next_session = 1
    /\ rejected = {}
    /\ reuse = FALSE

\* no TerminalManager yet, the terminal in cooked mode
TermIdle ==
    /\ term = "none"
    /\ was_raw = FALSE
    /\ tty_raw = FALSE
    /\ tty_paste = FALSE

NoAttempt == [tag |-> "none", token |-> None, mek |-> None, warned |-> FALSE]

NoEnsure == [invalid_grant |-> FALSE, cleared |-> FALSE, flow |-> "none"]

NoSession == [called |-> FALSE, resume |-> FALSE, before |-> None, ok |-> FALSE]

\* run() just called
StartIdle ==
    /\ startPc = "auth"
    /\ runs = 1
    /\ attempt = NoAttempt
    /\ ensure_log = NoEnsure
    /\ resume = FALSE
    /\ run_session = None
    /\ session_log = NoSession
    /\ spawned = FALSE
    /\ hook_token = None

NoAttemptYet == [some |-> FALSE, kind |-> "none", state |-> "none"]

LoopIdle ==
    /\ loopPc = "select"
    /\ clock_ms = 0
    /\ select_at = 0
    /\ wake_at = 0
    /\ last_reconnect_attempt = 0
    /\ output_rx = <<>>
    /\ advances = 0
    /\ attempt_log = NoAttemptYet

Tasks == {"main", "receiver"}

LockIdle ==
    /\ taskPath = [t \in Tasks |-> <<>>]
    /\ taskPc = [t \in Tasks |-> 1]
    /\ guards = [t \in Tasks |-> {}]
    /\ abort_requested = FALSE

\* CommandInterceptor::new, with nothing typed
InterceptIdle ==
    /\ interceptor_state = "Normal"
    /\ buffer = <<>>
    /\ at_line_start = TRUE
    /\ forward = <<>>
    /\ cmd_rx = <<>>
    /\ typing = <<>>
    /\ lines_typed = 0

TailIdle == LockIdle /\ InterceptIdle

LaterIdle ==
    AuthIdle /\ CredIdle /\ TermIdle /\ StartIdle /\ LoopIdle /\ TailIdle

ExtraIdle == ExitIdle /\ KeyIdle /\ CryptoIdle /\ GuestIdle /\ LaterIdle

QInit ==
    /\ message_queue = <<>>
    /\ is_connected = TRUE
    /\ reconnect_attempt = 0
    /\ sock = "alive"
    /\ now = 0
    /\ ticks = 0
    /\ produced = 0
    /\ bursts = 0
    /\ sockets = 1
    /\ QueueGhostIdle
    /\ AppIdle
    /\ EnvIdle
    /\ BackoffIdle
    /\ ExtraIdle

QOthersUnchanged == UNCHANGED <<appVars, envVars, backoffVars, extraVars>>

QGhostUnchanged ==
    /\ UNCHANGED queueGhostVars
    /\ QOthersUnchanged

QDrainGhostUnchanged ==
    /\ UNCHANGED <<lastDrain, lastDrainAt, lastDrainDropped>>
    /\ QOthersUnchanged

\* the clock advances
QTick ==
    /\ ticks < MaxTicks
    /\ ticks' = ticks + 1
    /\ now' = now + TickStep
    /\ UNCHANGED <<message_queue, is_connected, reconnect_attempt, sock,
                   produced, bursts, sockets>>
    /\ QGhostUnchanged

\* recv() finds the socket gone: the error arm and the closed arm both clear
\* is_connected
QRecvLost ==
    /\ is_connected
    /\ is_connected' = FALSE
    /\ sock' = "severed"
    /\ UNCHANGED <<message_queue, reconnect_attempt, now, ticks,
                   produced, bursts, sockets>>
    /\ QGhostUnchanged

\* k calls of send_output -> send_message: queued when not connected, else
\* written to the socket (or failed with Err on a dead socket: not queued)
QSendBurst(k) ==
    /\ bursts < MaxBursts
    /\ bursts' = bursts + 1
    /\ produced' = produced + k
    /\ IF ~is_connected
       THEN /\ message_queue' = QueueBurst(message_queue, produced, k, now)
            /\ lastEnqueueAt' = now
            /\ lastEnqueueLen' = Len(message_queue)
            /\ lastBurst' = k
       ELSE UNCHANGED <<message_queue, lastEnqueueAt, lastEnqueueLen, lastBurst>>
    /\ UNCHANGED <<is_connected, reconnect_attempt, sock, now, ticks, sockets>>
    /\ QDrainGhostUnchanged

\* do_connect() once connect_async has succeeded: store the halves,
\* is_connected = true, reconnect_attempt = 0, drain the queue; `budget` sends
\* succeed before the new socket fails.
QDoConnect(budget) ==
    /\ sockets < MaxQSockets
    /\ sockets' = sockets + 1
    /\ LET r == drain_message_queue(message_queue, now, budget)
       IN  /\ message_queue' = r.queue
           /\ lastDrain' = r.sent
           /\ lastDrainAt' = now
           /\ lastDrainDropped' = r.dropped
           /\ sock' = IF r.ok THEN "alive" ELSE "severed"
    /\ is_connected' = TRUE
    /\ reconnect_attempt' = 0
    /\ UNCHANGED <<now, ticks, produced, bursts, lastEnqueueAt, lastEnqueueLen,
                   lastBurst>>
    /\ QOthersUnchanged

\* how many sends succeed before the new socket fails: none, one, or all
DrainBudgets == {0, 1, MAX_QUEUE_SIZE}

QNext ==
    \/ QTick
    \/ QRecvLost
    \/ \E k \in BurstSizes : QSendBurst(k)
    \/ \E b \in DrainBudgets : QDoConnect(b)

SpecQueue == QInit /\ [][QNext]_vars

\* ------------------------------------------- connecting and sending
SessionAttach == [kind |-> "session_attach", id |-> 0]

SessionDetach == [kind |-> "session_detach", id |-> 0]

Pong == [kind |-> "pong", id |-> 0]

CloseFrame == [kind |-> "close", id |-> 0]

\* the messages of a sequence of queue entries
Messages(qs) == [i \in 1..Len(qs) |-> qs[i].message]

\* the ids of the output messages of a sequence of frames, in order
OutputIds(frames) ==
    LET outs == SelectSeq(frames, LAMBDA f : f.kind = "output")
    IN  [i \in 1..Len(outs) |-> outs[i].id]

Min(a, b) == IF a < b THEN a ELSE b

\* do_connect(): connect_async fails (nothing changes), or the new socket is
\* stored and the queue is drained onto it; `budget` writes succeed on the
\* new socket before it fails.  `written` is what the drain wrote.
do_connect(q, t, relayOk, budget) ==
    IF ~relayOk
    THEN [opened |-> FALSE, ok |-> FALSE, queue |-> q, written |-> <<>>]
    ELSE LET r == drain_message_queue(q, t, budget)
         IN  [opened |-> TRUE, ok |-> r.ok, queue |-> r.queue,
              written |-> Messages(r.sent)]

\* the error of send_session_attach is ignored
send_session_attach_Unchecked(dc, budget) == dc.ok

\* connect() and reconnect(): send_session_attach() runs once do_connect()
\* has returned Ok, and succeeds if the socket still takes a write
send_session_attach(dc, budget) == dc.ok /\ budget > Len(dc.written)

\* what connect() / reconnect() wrote to the new socket, in order: the drained
\* queue entries first, then session_attach
HandshakeFrames(dc, budget) ==
    dc.written \o
    (IF dc.ok /\ budget > Len(dc.written) THEN <<SessionAttach>> ELSE <<>>)

\* the failure arms of handle_reconnection (packages/cli): give up
on_reconnect_failure_GiveUp(state) == "Detached"

\* the failure arms of handle_reconnection_silent: "Stay in Reconnecting
\* state, will retry later" -- the connection state is not written
on_reconnect_failure(state) == state

\* the exit codes the child is given here
ChildExitCodes == {0, 3}

\* the code the PTY reader task sends on the shutdown channel when the read
\* returns EOF or an error: the literal 0, whatever the child's status
shutdown_code(c) == 0

\* the tick arm after a failed attempt: exponential backoff, capped
NextBackoffSecs(b) == Min(b * 2, MAX_RECONNECT_BACKOFF_SECS)

\* send_message(msg) on the current client: queued when not connected, else
\* written to the socket; a write on a dead socket is an Err the callers
\* drop, and the message is not queued
SendMessage(msg) ==
    IF ~is_connected
    THEN /\ message_queue' = queue_message(message_queue, msg, now)
         /\ UNCHANGED <<wire, delivered>>
    ELSE /\ UNCHANGED message_queue
         /\ IF sock = "alive"
            THEN /\ wire' = Append(wire, msg)
                 /\ delivered' = delivered \o OutputIds(<<msg>>)
            ELSE UNCHANGED <<wire, delivered>>

\* ------------------------------------------------- the session event loop
\* run() from the first connection attempt on: the main loop's select arms,
\* the receiver task, and the network.  The clock stands still here: queue
\* ages are the subject of SpecQueue, and the tick arm's elapsed-time test is
\* met whenever the arm is taken.

\* how many writes a new socket takes before it fails: none, one, or more
\* than any handshake makes
AllWrites == MAX_QUEUE_SIZE + 1

SendBudgets == {0, 1, AllWrites}

\* the frames the server can send on a live socket: a JSON ping, a native
\* WebSocket ping, a close frame, a text frame that does not parse
ServerFrames == {"ping", "wsping", "close", "garbage"}

\* what recv() can yield on a socket the network has cut: the stream's error,
\* or the end of the stream
DeadSocketResults == {"error", "closed"}

SpecGhostIdle ==
    /\ now = 0
    /\ ticks = 0
    /\ produced = 0
    /\ bursts = 0
    /\ inbound = 0
    /\ failures = 0
    /\ delivered = <<>>
    /\ BackoffIdle
    /\ QueueGhostIdle
    /\ ExtraIdle

\* the state when the main loop is entered: connect_websocket() has returned
\* Some(client) and the state is Attached, or None and the state is Detached
Init ==
    /\ SpecGhostIdle
    /\ recv_result = "idle"
    /\ ws_msgs = 0
    /\ mainPc = "select"
    /\ reconnect_backoff_secs = INITIAL_RECONNECT_BACKOFF_SECS
    /\ message_queue = <<>>
    /\ reconnect_attempt = 0
    /\ \E relayOk \in BOOLEAN, budget \in SendBudgets :
         LET dc == do_connect(<<>>, 0, relayOk, budget)
         IN  IF send_session_attach(dc, budget)
             THEN /\ ws_client = "Some"
                  /\ connection_state = "Attached"
                  /\ is_connected = TRUE
                  /\ sock = "alive"
                  /\ sockets = 1
                  /\ wire = HandshakeFrames(dc, budget)
             ELSE /\ ws_client = "None"
                  /\ connection_state = "Detached"
                  /\ is_connected = FALSE
                  /\ sock = "none"
                  /\ sockets = 0
                  /\ wire = <<>>

SpecUnused == UNCHANGED <<now, ticks, bursts, backoffVars, queueGhostVars,
                          extraVars>>

\* the PTY-output arm: the chunk goes to the socket only in state Attached
PtyOutput ==
    /\ mainPc = "select"
    /\ produced < MaxOutputs
    /\ produced' = produced + 1
    /\ IF connection_state = "Attached" /\ ws_client = "Some"
       THEN SendMessage(OutputMsg(produced + 1))
       ELSE UNCHANGED <<message_queue, wire, delivered>>
    /\ UNCHANGED <<is_connected, reconnect_attempt, sock, appVars, sockets,
                   inbound, failures>>
    /\ SpecUnused

\* the incoming-message arm: a Ping is answered with send_pong()
WsMsg ==
    /\ mainPc = "select"
    /\ ws_msgs > 0
    /\ ws_msgs' = ws_msgs - 1
    /\ IF ws_client = "Some"
       THEN SendMessage(Pong)
       ELSE UNCHANGED <<message_queue, wire, delivered>>
    /\ UNCHANGED <<is_connected, reconnect_attempt, sock, ws_client,
                   connection_state, recv_result, mainPc,
                   reconnect_backoff_secs, produced, sockets, inbound,
                   failures>>
    /\ SpecUnused

\* the network cuts the current socket
Sever ==
    /\ mainPc # "done"
    /\ ws_client = "Some"
    /\ sock = "alive"
    /\ sock' = "severed"
    /\ UNCHANGED <<message_queue, is_connected, reconnect_attempt, appVars,
                   produced, sockets, inbound, failures, wire, delivered>>
    /\ SpecUnused

\* the receiver task, first half: client.recv() under the client lock.
\* A JSON ping is Ok(Some(Ping)); a native ping is answered with a pong and
\* is Ok(None); a close frame clears is_connected and is Ok(None); a frame
\* that does not parse is Err; on a dead socket recv() clears is_connected
\* and is Err or Ok(None).
RecvPoll(outcome) ==
    /\ mainPc # "done"
    /\ ws_client = "Some"
    /\ recv_result = "idle"
    /\ \/ /\ sock = "alive"
          /\ outcome \in ServerFrames
          /\ inbound < MaxInbound
          /\ inbound' = inbound + 1
          /\ recv_result' = CASE outcome = "ping" -> "ping"
                              [] outcome = "garbage" -> "error"
                              [] OTHER -> "closed"
          /\ is_connected' = IF outcome = "close" THEN FALSE ELSE is_connected
          /\ sock' = IF outcome = "close" THEN "closed" ELSE sock
          /\ wire' = IF outcome = "wsping"
                     THEN Append(wire, [kind |-> "ws_pong", id |-> 0])
                     ELSE wire
       \/ /\ sock \in {"severed", "closed"}
          /\ outcome \in DeadSocketResults
          /\ sock = "closed" => outcome = "closed"
          /\ recv_result' = outcome
          /\ is_connected' = FALSE
          /\ UNCHANGED <<sock, inbound, wire>>
    /\ UNCHANGED <<message_queue, reconnect_attempt, ws_client,
                   connection_state, ws_msgs, mainPc, reconnect_backoff_secs,
                   produced, sockets, failures, delivered>>
    /\ SpecUnused

\* the receiver task, second half: the match on recv_result, after the client
\* lock has been released
RecvApply ==
    /\ mainPc # "done"
    /\ recv_result # "idle"
    /\ recv_result' = "idle"
    /\ ws_msgs' = IF recv_result = "ping" THEN ws_msgs + 1 ELSE ws_msgs
    /\ connection_state' = CASE recv_result = "closed" -> "Detached"
                             [] recv_result = "error" -> "Reconnecting"
                             [] OTHER -> connection_state
    /\ UNCHANGED <<clientVars, ws_client, mainPc, reconnect_backoff_secs,
                   produced, sockets, envVars>>
    /\ SpecUnused

\* the tick arm in state Reconnecting, and the first half of
\* handle_reconnection_silent(): client.reconnect() on the existing client,
\* under the client lock.  reconnect() refuses (Ok(false)) once
\* reconnect_attempt has reached MAX_RECONNECT_ATTEMPTS; otherwise it counts
\* the attempt, sleeps, and runs do_connect() and send_session_attach().
\* Anything but Ok(true) falls through to the fresh connection.
TickReconnect(relayOk, budget) ==
    /\ mainPc = "select"
    /\ connection_state = "Reconnecting"
    /\ LET dc == do_connect(message_queue, now, relayOk, budget)
           attached == send_session_attach(dc, budget)
           frames == HandshakeFrames(dc, budget)
       IN  IF ws_client = "None" \/ reconnect_attempt >= MAX_RECONNECT_ATTEMPTS
           THEN /\ mainPc' = "fresh"
                /\ UNCHANGED <<clientVars, connection_state,
                               reconnect_backoff_secs, sockets, failures, wire,
                               delivered>>
           ELSE IF ~dc.opened
           THEN /\ reconnect_attempt' = reconnect_attempt + 1
                /\ mainPc' = "fresh"
                /\ connection_state' = on_reconnect_failure(connection_state)
                /\ UNCHANGED <<message_queue, is_connected, sock,
                               reconnect_backoff_secs, sockets, failures, wire,
                               delivered>>
           ELSE /\ sockets < MaxSockets
                /\ sockets' = sockets + 1
                /\ is_connected' = TRUE
                /\ reconnect_attempt' = 0
                /\ message_queue' = dc.queue
                /\ wire' = frames
                /\ delivered' = delivered \o OutputIds(frames)
                /\ IF attached
                   THEN /\ sock' = IF Len(frames) > Len(dc.written)
                                   THEN "alive" ELSE "severed"
                        /\ connection_state' = "Attached"
                        /\ reconnect_backoff_secs' = INITIAL_RECONNECT_BACKOFF_SECS
                        /\ failures' = 0
                        /\ mainPc' = "select"
                   ELSE /\ sock' = "severed"
                        /\ connection_state' = on_reconnect_failure(connection_state)
                        /\ mainPc' = "fresh"
                        /\ UNCHANGED <<reconnect_backoff_secs, failures>>
    /\ UNCHANGED <<ws_client, recv_result, ws_msgs, produced, inbound>>
    /\ SpecUnused

\* the second half of handle_reconnection_silent(): ensure_authenticated and
\* connect_websocket() with a new client, which replaces the old one on
\* success; then the tick arm's backoff update
FreshConnection(authOk, relayOk, budget) ==
    /\ mainPc = "fresh"
    /\ mainPc' = "select"
    /\ LET dc == do_connect(<<>>, now, relayOk, budget)
           attached == send_session_attach(dc, budget)
           frames == HandshakeFrames(dc, budget)
       IN  IF authOk /\ attached
           THEN /\ sockets < MaxSockets
                /\ sockets' = sockets + 1
                /\ ws_client' = "Some"
                /\ message_queue' = dc.queue
                /\ is_connected' = TRUE
                /\ reconnect_attempt' = 0
                /\ sock' = IF Len(frames) > Len(dc.written)
                           THEN "alive" ELSE "severed"
                /\ wire' = frames
                /\ delivered' = delivered \o OutputIds(frames)
                /\ connection_state' = "Attached"
                /\ reconnect_backoff_secs' = INITIAL_RECONNECT_BACKOFF_SECS
                /\ failures' = 0
           ELSE /\ connection_state' = on_reconnect_failure(connection_state)
                /\ reconnect_backoff_secs' = NextBackoffSecs(reconnect_backoff_secs)
                /\ failures' = failures + 1
                /\ UNCHANGED <<clientVars, ws_client, sockets, wire, delivered>>
    /\ UNCHANGED <<recv_result, ws_msgs, produced, inbound>>
    /\ SpecUnused

\* the end of the session taken in one step: the child exits and the PTY
\* reader sees EOF, or the PTY read fails; the shutdown arm breaks the loop;
\* close() sends session_detach if connected, then a close frame; the state
\* becomes Detached, the receiver task is aborted, the PTY-input channel is
\* closed and run() returns the code the reader sent
Shutdown ==
    /\ mainPc = "select"
    /\ mainPc' = "done"
    /\ reader = "reading"
    /\ \/ /\ reader' = "eof"
          /\ \E code \in ChildExitCodes :
               child' = [exited |-> TRUE, code |-> code]
       \/ /\ reader' = "failed"
          /\ child' = child
    /\ pty_input' = "closed"
    /\ exit_code' = shutdown_code(child')
    /\ run_result' = [tag |-> "Ok", code |-> shutdown_code(child')]
    /\ UNCHANGED shutdown_rx
    /\ connection_state' = "Detached"
    /\ recv_result' = "idle"
    /\ IF ws_client = "Some"
       THEN /\ is_connected' = FALSE
            /\ wire' = IF sock = "alive"
                       THEN wire \o (IF is_connected THEN <<SessionDetach>> ELSE <<>>)
                                 \o <<CloseFrame>>
                       ELSE wire
            /\ message_queue' = message_queue
       ELSE UNCHANGED <<is_connected, wire, message_queue>>
    /\ UNCHANGED <<reconnect_attempt, sock, ws_client, ws_msgs,
                   reconnect_backoff_secs, produced, sockets, inbound, failures,
                   delivered>>
    /\ UNCHANGED <<now, ticks, bursts, backoffVars, queueGhostVars,
                   notExitVars>>

\* the outcomes the network can give a run of the whole runtime
Recv == \E outcome \in ServerFrames \cup DeadSocketResults : RecvPoll(outcome)

TickArm ==
    /\ failures < MaxFailures
    /\ \E relayOk \in BOOLEAN, budget \in SendBudgets :
         TickReconnect(relayOk, budget)

FreshArm ==
    \E authOk \in BOOLEAN, relayOk \in BOOLEAN, budget \in SendBudgets :
        FreshConnection(authOk, relayOk, budget)

Next ==
    \/ PtyOutput
    \/ WsMsg
    \/ Sever
    \/ Recv
    \/ RecvApply
    \/ TickArm
    \/ FreshArm
    \/ Shutdown

Spec == Init /\ [][Next]_vars

\* ------------------------------------------------- network outages
\* The runtime when the network's cuts are the only disturbance: the relay
\* stays unreachable for up to MaxRetryFailures calls of
\* handle_reconnection_silent, sockets that open stay healthy through the
\* handshake, and the server sends nothing.
RetryInit ==
    /\ Init
    /\ ws_client = "Some"

RetryRecv == \E outcome \in DeadSocketResults : RecvPoll(outcome)

RetryTick ==
    /\ failures < MaxRetryFailures
    /\ \E relayOk \in BOOLEAN : TickReconnect(relayOk, AllWrites)

RetryFresh ==
    \E authOk \in BOOLEAN, relayOk \in BOOLEAN :
        FreshConnection(authOk, relayOk, AllWrites)

RetryNext ==
    \/ PtyOutput
    \/ Sever
    \/ RetryRecv
    \/ RecvApply
    \/ RetryTick
    \/ RetryFresh

SpecOutage == RetryInit /\ [][RetryNext]_vars

\* ------------------------------------------------- reconnect() on its own
\* the delay reconnect() sleeps before attempt n, with the jitter drawn:
\* min(BASE_BACKOFF_MS * 2^(n-1) + jitter, MAX_BACKOFF_MS)
BaseDelay(n) == BASE_BACKOFF_MS * 2 ^ (n - 1)

\* the cap is missing
BackoffDelay_NoCap(n, jitter) == BaseDelay(n) + jitter

BackoffDelay(n, jitter) == Min(BaseDelay(n) + jitter, MAX_BACKOFF_MS)

\* gen_range(0..1000)
Jitters == 0..(JITTER_RANGE_MS - 1)

\* a client that has lost its connection
BInit ==
    /\ message_queue = <<>>
    /\ is_connected = FALSE
    /\ reconnect_attempt = 0
    /\ sock = "severed"
    /\ now = 0
    /\ ticks = 0
    /\ produced = 0
    /\ bursts = 0
    /\ sockets = 1
    /\ QueueGhostIdle
    /\ AppIdle
    /\ EnvIdle
    /\ BackoffIdle
    /\ ExtraIdle

BOthersUnchanged ==
    UNCHANGED <<extraVars, message_queue, appVars, envVars, queueGhostVars, now, ticks,
                produced, bursts, sockets>>

\* reconnect() up to its sleep: refuse at MAX_RECONNECT_ATTEMPTS, else count
\* the attempt and compute the delay
ReconnectSleep(jitter) ==
    /\ delay_attempt = 0
    /\ reconnect_attempt < MAX_RECONNECT_ATTEMPTS
    /\ reconnect_attempt' = reconnect_attempt + 1
    /\ delay_attempt' = reconnect_attempt + 1
    /\ delay_ms' = BackoffDelay(reconnect_attempt + 1, jitter)
    /\ UNCHANGED <<is_connected, sock>>
    /\ BOthersUnchanged

\* reconnect() after its sleep: do_connect() (the queue is empty here) and
\* send_session_attach()
ReconnectWake(relayOk) ==
    /\ delay_attempt > 0
    /\ delay_attempt' = 0
    /\ delay_ms' = 0
    /\ IF relayOk
       THEN /\ is_connected' = TRUE
            /\ reconnect_attempt' = 0
            /\ sock' = "alive"
       ELSE UNCHANGED <<is_connected, reconnect_attempt, sock>>
    /\ BOthersUnchanged

\* recv() finds the socket gone
BRecvLost ==
    /\ delay_attempt = 0
    /\ is_connected
    /\ is_connected' = FALSE
    /\ sock' = "severed"
    /\ UNCHANGED <<reconnect_attempt, backoffVars>>
    /\ BOthersUnchanged

BNext ==
    \/ \E jitter \in Jitters : ReconnectSleep(jitter)
    \/ \E relayOk \in BOOLEAN : ReconnectWake(relayOk)
    \/ BRecvLost

SpecBackoff == BInit /\ [][BNext]_vars

\* ------------------------------------------------- one transient outage
\* The runtime through a single cut of its first socket, with the child
\* running on: the relay is unreachable for at most MaxFailures calls of
\* handle_reconnection_silent and reachable from then on, the credentials
\* stay valid, sockets that open stay healthy, and the server sends
\* nothing.  The receiver task keeps running, and the tick arm, which fires
\* every 10 ms, is taken if it is enabled again and again.
SeverOnce ==
    /\ sockets = 1
    /\ Sever

FairRecv == \E outcome \in DeadSocketResults : RecvPoll(outcome)

FairTick ==
    \E relayOk \in BOOLEAN :
        /\ relayOk \/ failures < MaxFailures
        /\ TickReconnect(relayOk, AllWrites)

FairFresh ==
    \E relayOk \in BOOLEAN :
        /\ relayOk \/ failures < MaxFailures
        /\ FreshConnection(TRUE, relayOk, AllWrites)

FairNext ==
    \/ PtyOutput
    \/ SeverOnce
    \/ FairRecv
    \/ RecvApply
    \/ FairTick
    \/ FairFresh

SpecFair ==
    /\ RetryInit
    /\ [][FairNext]_vars
    /\ WF_vars(FairRecv)
    /\ WF_vars(RecvApply)
    /\ SF_vars(FairTick)
    /\ SF_vars(FairFresh)


\* ----------------------------------------------------- the end of run()
\* The child, the PTY reader task, the shutdown arm and the cleanup after the
\* main loop, step by step, with the transport failing underneath.

\* the frames close() writes, in order: session_detach if is_connected, then
\* the close frame
close_frames_CloseFirst(connected) ==
    <<CloseFrame>> \o (IF connected THEN <<SessionDetach>> ELSE <<>>)

close_frames(connected) ==
    (IF connected THEN <<SessionDetach>> ELSE <<>>) \o <<CloseFrame>>

\* the frames that reach a socket which takes `budget` more writes
Written(frames, budget) == SubSeq(frames, 1, Min(budget, Len(frames)))

\* run_cli(): Ok(code) is the process exit code, Err is 1
run_cli(result) == IF result.tag = "Ok" THEN result.code ELSE 1

ExitUnused == UNCHANGED <<now, ticks, bursts, backoffVars, queueGhostVars,
                          notExitVars>>

\* the child exits with a code of its own
ChildExit(code) ==
    /\ ~child.exited
    /\ child' = [exited |-> TRUE, code |-> code]
    /\ UNCHANGED <<reader, shutdown_rx, pty_input, exit_code, run_result>>
    /\ UNCHANGED <<clientVars, appVars, envVars, produced, sockets>>
    /\ ExitUnused

\* the PTY reader task: read_blocking returns Ok(0) once the child has
\* exited (`how` is "eof"), or Err on a fatal PTY error ("failed"); either
\* way the task sends its code on the shutdown channel and ends
ReaderReport(how) ==
    /\ reader = "reading"
    /\ how = "eof" => child.exited
    /\ reader' = how
    /\ shutdown_rx' = Append(shutdown_rx, shutdown_code(child))
    /\ UNCHANGED <<child, pty_input, exit_code, run_result>>
    /\ UNCHANGED <<clientVars, appVars, envVars, produced, sockets>>
    /\ ExitUnused

ReaderEof == ReaderReport("eof")

ReaderError == ReaderReport("failed")

\* the PTY-output arm with a send error that is returned with `?`
PtyArm_Propagate(termOk) ==
    /\ mainPc = "select"
    /\ IF termOk /\ ~(connection_state = "Attached" /\ ws_client = "Some"
                      /\ is_connected /\ sock # "alive")
       THEN PtyOutput
       ELSE /\ produced < MaxOutputs
            /\ produced' = produced + 1
            /\ mainPc' = "failed"
            /\ run_result' = [tag |-> IF termOk THEN "WebSocketError"
                                      ELSE "IoError", code |-> 0]
            /\ UNCHANGED <<clientVars, ws_client, connection_state,
                           recv_result, ws_msgs, reconnect_backoff_secs,
                           envVars, sockets, child, reader, shutdown_rx,
                           pty_input, exit_code>>
            /\ ExitUnused

\* the PTY-output arm: terminal.write(&output)? first, whose error leaves
\* run() at once, without the cleanup; then the send, whose error is logged
PtyArm(termOk) ==
    /\ mainPc = "select"
    /\ IF termOk
       THEN PtyOutput
       ELSE /\ produced < MaxOutputs
            /\ produced' = produced + 1
            /\ mainPc' = "failed"
            /\ run_result' = [tag |-> "IoError", code |-> 0]
            /\ UNCHANGED <<clientVars, ws_client, connection_state,
                           recv_result, ws_msgs, reconnect_backoff_secs,
                           envVars, sockets, child, reader, shutdown_rx,
                           pty_input, exit_code>>
            /\ ExitUnused

\* the shutdown arm: break 'main code
ShutdownArm ==
    /\ mainPc = "select"
    /\ shutdown_rx # <<>>
    /\ exit_code' = Head(shutdown_rx)
    /\ shutdown_rx' = Tail(shutdown_rx)
    /\ mainPc' = "cleanup"
    /\ UNCHANGED <<child, reader, pty_input, run_result>>
    /\ UNCHANGED <<clientVars, ws_client, connection_state, recv_result,
                   ws_msgs, reconnect_backoff_secs, envVars, produced, sockets>>
    /\ ExitUnused

\* the cleanup, first half: client.close() under the client lock, the state
\* set to Detached, the receiver task aborted
Cleanup(budget) ==
    /\ mainPc = "cleanup"
    /\ mainPc' = "closed"
    /\ connection_state' = "Detached"
    /\ recv_result' = "idle"
    /\ IF ws_client = "Some"
       THEN /\ is_connected' = FALSE
            /\ wire' = IF sock = "alive"
                       THEN wire \o Written(close_frames(is_connected), budget)
                       ELSE wire
            /\ sock' = IF sock = "alive" /\ budget < Len(close_frames(is_connected))
                       THEN "severed" ELSE sock
       ELSE UNCHANGED <<is_connected, wire, sock>>
    /\ UNCHANGED <<message_queue, reconnect_attempt, ws_client, ws_msgs,
                   reconnect_backoff_secs, inbound, failures, delivered,
                   produced, sockets, exitVars>>
    /\ ExitUnused

\* the cleanup, second half: drop(pty_input_tx), the PTY tasks joined, and
\* Ok(exit_code) returned
PtyInputClose ==
    /\ mainPc = "closed"
    /\ reader # "reading"
    /\ mainPc' = "done"
    /\ pty_input' = "closed"
    /\ run_result' = [tag |-> "Ok", code |-> exit_code]
    /\ UNCHANGED <<child, reader, shutdown_rx, exit_code>>
    /\ UNCHANGED <<clientVars, ws_client, connection_state, recv_result,
                   ws_msgs, reconnect_backoff_secs, envVars, produced, sockets>>
    /\ ExitUnused

\* the loop and the receiver task run until the cleanup
Running == mainPc \in {"select", "fresh", "cleanup"}

ExitSever == Running /\ Sever

\* the receive failures: the server's close frame, a frame that does not
\* parse, the error or the end of a cut stream
ExitRecv ==
    /\ Running
    /\ \E outcome \in {"close", "garbage"} \cup DeadSocketResults :
         RecvPoll(outcome)

ExitRecvApply == Running /\ RecvApply

ExitTick == TickArm

ExitFresh == FreshArm

CloseBudgets == 0..2

ExitNext ==
    \/ \E termOk \in BOOLEAN : PtyArm(termOk)
    \/ ExitSever
    \/ ExitRecv
    \/ ExitRecvApply
    \/ ExitTick
    \/ ExitFresh
    \/ \E code \in ChildExitCodes : ChildExit(code)
    \/ ReaderEof
    \/ ReaderError
    \/ ShutdownArm
    \/ \E budget \in CloseBudgets : Cleanup(budget)
    \/ PtyInputClose

SpecExit == Init /\ [][ExitNext]_vars

\* ------------------------------------------------ content encryption
\* crypto.rs.  Bytes are 0..255; a SecretKey is named by a small number; a
\* base64 string is the sequence of its 6-bit digits, with B64Pad for '='.

\* the number of the '=' sign among the base64 digits
B64Pad == 64

\* the bytes the plaintexts are made of
ByteSamples == {0, 65, 255}

RECURSIVE SeqsUpTo(_, _)
SeqsUpTo(S, n) ==
    IF n = 0 THEN {<<>>}
    ELSE LET shorter == SeqsUpTo(S, n - 1)
         IN  shorter \cup {Append(s, x) : s \in shorter, x \in S}

Plaintexts == SeqsUpTo(ByteSamples, MaxPlainLen)

\* SecretKey::random(): the master keys, and the session ids
Meks == {1, 2}

SessionIds == {1, 2}

\* derive_session_key(): HKDF-SHA256 of the MEK with the session id in the
\* info string; distinct (mek, session id) pairs give distinct keys
derive_session_key(m, sid) == m * 16 + sid

SessionKeys == {derive_session_key(m, s) : m \in Meks, s \in SessionIds}

\* generate_nonce(): the nonces drawn here
Nonce(n) == [i \in 1..NONCE_SIZE |-> (n + i - 1) % 256]

Nonces == {Nonce(0), Nonce(200)}

\* STANDARD.encode
RECURSIVE base64_encode(_)
base64_encode(b) ==
    IF Len(b) = 0 THEN <<>>
    ELSE IF Len(b) = 1
    THEN <<b[1] \div 4, (b[1] % 4) * 16, B64Pad, B64Pad>>
    ELSE IF Len(b) = 2
    THEN <<b[1] \div 4, (b[1] % 4) * 16 + b[2] \div 16, (b[2] % 16) * 4,
           B64Pad>>
    ELSE <<b[1] \div 4, (b[1] % 4) * 16 + b[2] \div 16,
           (b[2] % 16) * 4 + b[3] \div 64, b[3] % 64>>
         \o base64_encode(SubSeq(b, 4, Len(b)))

Failed == [ok |-> FALSE, bytes |-> <<>>]

Decoded(b) == [ok |-> TRUE, bytes |-> b]

\* STANDARD.decode: groups of four digits, padding only at the end of the
\* last group, no stray bits under the padding
RECURSIVE base64_decode(_)
base64_decode(s) ==
    IF Len(s) = 0 THEN Decoded(<<>>)
    ELSE IF Len(s) < 4 \/ s[1] >= B64Pad \/ s[2] >= B64Pad THEN Failed
    ELSE IF Len(s) > 4
    THEN LET rest == base64_decode(SubSeq(s, 5, Len(s)))
         IN  IF s[3] >= B64Pad \/ s[4] >= B64Pad \/ ~rest.ok THEN Failed
             ELSE Decoded(<<s[1] * 4 + s[2] \div 16,
                            (s[2] % 16) * 16 + s[3] \div 4,
                            (s[3] % 4) * 64 + s[4]>> \o rest.bytes)
    ELSE IF s[3] = B64Pad
    THEN IF s[4] = B64Pad /\ s[2] % 16 = 0
         THEN Decoded(<<s[1] * 4 + s[2] \div 16>>)
         ELSE Failed
    ELSE IF s[4] = B64Pad
    THEN IF s[3] % 4 = 0
         THEN Decoded(<<s[1] * 4 + s[2] \div 16,
                        (s[2] % 16) * 16 + s[3] \div 4>>)
         ELSE Failed
    ELSE Decoded(<<s[1] * 4 + s[2] \div 16,
                   (s[2] % 16) * 16 + s[3] \div 4,
                   (s[3] % 4) * 64 + s[4]>>)

\* AES-256-GCM taken as an ideal AEAD.  The ciphertext has the plaintext's
\* length, each byte shifted by a keystream that depends on the key, the
\* nonce and the position.
Keystream(key, nonce, i) == (key * 7 + nonce[1] + i * 13) % 256

\* The 16-byte tag binds the key, the nonce and the ciphertext: distinct
\* (key, nonce, ciphertext) give distinct tags
GcmTag(key, nonce, ct) ==
    [i \in 1..TAG_SIZE |->
        CASE i = 1 -> key % 256
          [] i = 2 -> nonce[1]
          [] i = 3 -> Len(ct)
          [] OTHER -> IF i - 3 <= Len(ct) THEN ct[i - 3] ELSE 0]

\* aes_gcm_encrypt(): (ciphertext, nonce, tag)
aes_gcm_encrypt(key, plaintext, nonce) ==
    LET ct == [i \in 1..Len(plaintext) |->
                  (plaintext[i] + Keystream(key, nonce, i)) % 256]
    IN  [ciphertext |-> ct, nonce |-> nonce, tag |-> GcmTag(key, nonce, ct)]

\* the tag is not verified
aes_gcm_decrypt_Unverified(key, ciphertext, nonce, tag) ==
    Decoded([i \in 1..Len(ciphertext) |->
                (ciphertext[i] + 256 - Keystream(key, nonce, i)) % 256])

\* aes_gcm_decrypt(): the plaintext if the tag verifies under the key, else
\* "Decryption failed (wrong key or corrupted data)"
aes_gcm_decrypt(key, ciphertext, nonce, tag) ==
    IF tag = GcmTag(key, nonce, ciphertext)
    THEN Decoded([i \in 1..Len(ciphertext) |->
                     (ciphertext[i] + 256 - Keystream(key, nonce, i)) % 256])
    ELSE Failed

\* the fields are encoded without the ciphertext's last byte
encrypt_content_Truncating(key, plaintext, nonce) ==
    LET r == aes_gcm_encrypt(key, plaintext, nonce)
    IN  [v |-> 1,
         nonce |-> base64_encode(r.nonce),
         ciphertext |-> base64_encode(SubSeq(r.ciphertext, 1,
                                             Len(r.ciphertext) - 1)),
         tag |-> base64_encode(r.tag)]

\* encrypt_content(): the EncryptedContent envelope
encrypt_content(key, plaintext, nonce) ==
    LET r == aes_gcm_encrypt(key, plaintext, nonce)
    IN  [v |-> 1,
         nonce |-> base64_encode(r.nonce),
         ciphertext |-> base64_encode(r.ciphertext),
         tag |-> base64_encode(r.tag)]

\* decrypt_content()
decrypt_content(key, encrypted) ==
    LET nonce == base64_decode(encrypted.nonce)
        ciphertext == base64_decode(encrypted.ciphertext)
        tag == base64_decode(encrypted.tag)
    IN  IF encrypted.v # 1 THEN Failed
        ELSE IF ~nonce.ok \/ ~ciphertext.ok \/ ~tag.ok THEN Failed
        ELSE IF Len(nonce.bytes) # NONCE_SIZE THEN Failed
        ELSE IF Len(tag.bytes) # TAG_SIZE THEN Failed
        ELSE aes_gcm_decrypt(key, ciphertext.bytes, nonce.bytes,
                             tag.bytes)

\* ------------------------------------------- the session key and the MEK
\* WebSocketClient's end-to-end encryption: send_output(), decrypt_prompt(),
\* get_or_derive_session_key() and set_mek(), lock by lock.  One caller sends
\* output or decrypts prompts, another sets the MEK.

\* the chunks the PTY produces here
PtyChunks == {<<65>>, <<0, 255>>}

\* OutgoingMessage::Output, the legacy variant: base64 of the plaintext
EncryptedOutput_Plain(id, sid, key, data, nonce) ==
    [kind |-> "output", id |-> id, session_id |-> sid,
     data |-> base64_encode(data)]

\* OutgoingMessage::EncryptedOutput, serialized with type "output"
EncryptedOutput(id, sid, key, data, nonce) ==
    [kind |-> "output", id |-> id, session_id |-> sid,
     encrypted |-> encrypt_content(key, data, nonce)]

\* String::from_utf8 on the bytes used here: 0xFF is in no UTF-8 string
from_utf8(bytes) ==
    IF \A i \in 1..Len(bytes) : bytes[i] < 128 THEN Decoded(bytes) ELSE Failed

\* decrypt_prompt() once the session key is at hand
decrypt_prompt(key, encrypted) ==
    LET plaintext == decrypt_content(key, encrypted)
    IN  IF plaintext.ok THEN from_utf8(plaintext.bytes) ELSE Failed

KeyUnused ==
    UNCHANGED <<reconnect_attempt, appVars, inbound, failures, backoffVars,
                queueGhostVars, now, ticks, bursts, exitVars, notKeyVars>>

\* the caller's work once it holds the key: send_output() encrypts the chunk
\* and hands it to send_message(); the incoming-message arm decrypts the
\* prompt and sends the text on the PTY-input channel, or logs the error
UseKey(key, nonce) ==
    IF userOp = "send"
    THEN /\ SendMessage(EncryptedOutput(Len(chunks), session_id, key,
                                        chunks[Len(chunks)], nonce))
         /\ UNCHANGED <<ws_msg_rx, pty_input_rx>>
    ELSE /\ ws_msg_rx' = Tail(ws_msg_rx)
         /\ LET text == decrypt_prompt(key, Head(ws_msg_rx))
            IN  pty_input_rx' = IF text.ok
                                THEN Append(pty_input_rx, text.bytes)
                                ELSE pty_input_rx
         /\ UNCHANGED <<message_queue, wire, delivered>>

\* the PTY-output arm calls send_output(data), or the incoming-message arm
\* takes an EncryptedPrompt and calls decrypt_prompt(); either begins with
\* get_or_derive_session_key(): under the session_key lock, the cached key
\* is returned if there is one
UserCall(op, data, nonce) ==
    /\ userPc = "idle"
    /\ userOp' = op
    /\ IF op = "send"
       THEN /\ produced < MaxOutputs
            /\ produced' = produced + 1
            /\ chunks' = Append(chunks, data)
       ELSE /\ ws_msg_rx # <<>>
            /\ UNCHANGED <<produced, chunks>>
    /\ IF session_key.some
       THEN /\ userPc' = "idle"
            /\ IF op = "send"
               THEN /\ SendMessage(EncryptedOutput(produced + 1, session_id,
                                                   session_key.v, data, nonce))
                    /\ UNCHANGED <<ws_msg_rx, pty_input_rx>>
               ELSE /\ ws_msg_rx' = Tail(ws_msg_rx)
                    /\ LET text == decrypt_prompt(session_key.v, Head(ws_msg_rx))
                       IN  pty_input_rx' = IF text.ok
                                           THEN Append(pty_input_rx, text.bytes)
                                           ELSE pty_input_rx
                    /\ UNCHANGED <<message_queue, wire, delivered>>
       ELSE /\ userPc' = "miss"
            /\ UNCHANGED <<message_queue, wire, delivered, ws_msg_rx,
                           pty_input_rx>>
    /\ UNCHANGED <<is_connected, sock, sockets, session_id, mek, session_key,
                   userKey, setPc, setArg, prompts>>
    /\ KeyUnused

\* get_or_derive_session_key(), under the mek lock: the key is derived from
\* the MEK that is set now
UserDerive ==
    /\ userPc = "miss"
    /\ mek.some
    /\ userKey' = derive_session_key(mek.v, session_id)
    /\ userPc' = "derived"
    /\ UNCHANGED <<clientVars, wire, delivered, produced, sockets, session_id,
                   mek, session_key, userOp, setPc, setArg, chunks, ws_msg_rx,
                   pty_input_rx, prompts>>
    /\ KeyUnused

\* get_or_derive_session_key(), under the session_key lock again: the derived
\* key is cached and returned, and the caller goes on with it
UserCache(nonce) ==
    /\ userPc = "derived"
    /\ session_key' = Some(userKey)
    /\ userPc' = "idle"
    /\ UseKey(userKey, nonce)
    /\ UNCHANGED <<is_connected, sock, produced, sockets, session_id, mek,
                   userOp, userKey, setPc, setArg, chunks, prompts>>
    /\ KeyUnused

\* set_mek(m), first lock: the cached session key is cleared
SetMekClear(m) ==
    /\ setPc = "idle"
    /\ m # mek.v
    /\ setArg' = m
    /\ setPc' = "cleared"
    /\ session_key' = None
    /\ UNCHANGED <<clientVars, wire, delivered, produced, sockets, session_id,
                   mek, userPc, userOp, userKey, chunks, ws_msg_rx,
                   pty_input_rx, prompts>>
    /\ KeyUnused

\* set_mek(m), second lock: the new MEK is stored
SetMekStore ==
    /\ setPc = "cleared"
    /\ setPc' = "idle"
    /\ mek' = Some(setArg)
    /\ UNCHANGED <<clientVars, wire, delivered, produced, sockets, session_id,
                   session_key, userPc, userOp, userKey, setArg, chunks,
                   ws_msg_rx, pty_input_rx, prompts>>
    /\ KeyUnused

\* the envelopes a prompt can arrive in: encrypted by a guest under a key
\* derived from some MEK for this or another session, or with a format
\* version this client does not know
PromptTexts == {<<65>>, <<255>>}

PromptEnvelopes ==
    {encrypt_content(derive_session_key(m, 1), text, Nonce(0)) :
        m \in Meks, text \in PromptTexts}
    \cup {encrypt_content(derive_session_key(1, 2), <<65>>, Nonce(0))}
    \cup {[encrypt_content(derive_session_key(1, 1), <<65>>, Nonce(0))
             EXCEPT !.v = 2]}

\* the relay delivers an EncryptedPrompt and the receiver task forwards it
PromptArrives(encrypted) ==
    /\ prompts < MaxPrompts
    /\ prompts' = prompts + 1
    /\ ws_msg_rx' = Append(ws_msg_rx, encrypted)
    /\ UNCHANGED <<clientVars, wire, delivered, produced, sockets, session_id,
                   mek, session_key, userPc, userOp, userKey, setPc, setArg,
                   chunks, pty_input_rx>>
    /\ KeyUnused

\* recv() finds the socket gone
KeyRecvLost ==
    /\ is_connected
    /\ is_connected' = FALSE
    /\ sock' = "severed"
    /\ UNCHANGED <<message_queue, wire, delivered, produced, sockets, keyVars>>
    /\ KeyUnused

\* reconnect(): do_connect() drains the queue onto the new socket
KeyReconnect ==
    /\ ~is_connected
    /\ sockets < MaxQSockets
    /\ sockets' = sockets + 1
    /\ LET dc == do_connect(message_queue, now, TRUE, AllWrites)
       IN  /\ message_queue' = dc.queue
           /\ wire' = HandshakeFrames(dc, AllWrites)
           /\ delivered' = delivered \o OutputIds(dc.written)
    /\ is_connected' = TRUE
    /\ sock' = "alive"
    /\ UNCHANGED <<produced, keyVars>>
    /\ KeyUnused

KeyInit ==
    /\ Init
    /\ ws_client = "Some"

\* the PTY-output arm's call
SendOutput == \E data \in PtyChunks, nonce \in Nonces :
                  UserCall("send", data, nonce)

\* the incoming-message arm's call
DecryptPrompt == UserCall("decrypt", <<>>, Nonce(0))

SetMek == \E m \in Meks : SetMekClear(m)

\* output is sent while the MEK is set again and the connection comes and goes
KeyNext ==
    \/ SendOutput
    \/ UserDerive
    \/ \E nonce \in Nonces : UserCache(nonce)
    \/ SetMek
    \/ SetMekStore
    \/ KeyRecvLost
    \/ KeyReconnect

SpecKey == KeyInit /\ [][KeyNext]_vars

\* GuestClient.session_key, derived when the guest connects
GuestSessionKey == derive_session_key(1, 1)

\* a failed entry ends the batch
RECURSIVE GuestDecryptAll_StopAtFailure(_)
GuestDecryptAll_StopAtFailure(envelopes) ==
    IF envelopes = <<>> THEN <<>>
    ELSE LET data == decrypt_content(GuestSessionKey, Head(envelopes))
         IN  IF data.ok
             THEN <<data.bytes>> \o GuestDecryptAll_StopAtFailure(Tail(envelopes))
             ELSE <<>>

\* the plaintexts written last entry first
RECURSIVE GuestDecryptAll_LastFirst(_)
GuestDecryptAll_LastFirst(envelopes) ==
    IF envelopes = <<>> THEN <<>>
    ELSE LET data == decrypt_content(GuestSessionKey, Head(envelopes))
         IN  GuestDecryptAll_LastFirst(Tail(envelopes))
             \o (IF data.ok THEN <<data.bytes>> ELSE <<>>)

\* GuestClient::decrypt() on each envelope in turn, the plaintexts of those
\* that decrypt, in order: the others are logged and skipped
RECURSIVE GuestDecryptAll(_)
GuestDecryptAll(envelopes) ==
    IF envelopes = <<>> THEN <<>>
    ELSE LET data == decrypt_content(GuestSessionKey, Head(envelopes))
         IN  (IF data.ok THEN <<data.bytes>> ELSE <<>>)
             \o GuestDecryptAll(Tail(envelopes))

\* the envelopes the relay sends a guest: output of the host under the
\* guest's key or under the key of another MEK
GuestEnvelopes ==
    {encrypt_content(derive_session_key(m, 1), data, Nonce(200)) :
        m \in Meks, data \in {<<0, 255>>}}

\* what the relay sends a guest: a history batch of two entries, or one
\* live output
GuestMessages ==
    {[kind |-> "output", entries |-> <<e>>] : e \in GuestEnvelopes}
    \cup {[kind |-> "history", entries |-> <<e1, e2>>] :
             e1 \in GuestEnvelopes, e2 \in GuestEnvelopes}

\* handle_incoming_message(), the History and EncryptedOutput arms: each
\* envelope is decrypted and written to stdout, or the failure is logged;
\* Ok(true) is returned and the event loop goes on
GuestMessage(msg) ==
    /\ guest_running
    /\ prompts < MaxPrompts
    /\ prompts' = prompts + 1
    /\ guest_seen' = guest_seen \o msg.entries
    /\ guest_kinds' = guest_kinds \o [i \in 1..Len(msg.entries) |-> msg.kind]
    /\ guest_stdout' = guest_stdout \o GuestDecryptAll(msg.entries)
    /\ guest_running' = TRUE
    /\ UNCHANGED <<input_buffer, guest_sent, keys, last_key, guest_end,
                   guest_pings, guest_frames>>
    /\ UNCHANGED <<clientVars, wire, delivered, produced, sockets, session_id,
                   mek, session_key, userPc, userOp, userKey, setPc, setArg,
                   chunks, ws_msg_rx, pty_input_rx, cryptoVars>>
    /\ UNCHANGED <<reconnect_attempt, appVars, inbound, failures, backoffVars,
                   queueGhostVars, now, ticks, bursts, exitVars,
                   laterVars>>

\* prompts arrive at the host and are decrypted while the MEK is set again;
\* history and output arrive at a guest
PromptNext ==
    \/ \E encrypted \in PromptEnvelopes : PromptArrives(encrypted)
    \/ DecryptPrompt
    \/ UserDerive
    \/ UserCache(Nonce(0))
    \/ SetMek
    \/ SetMekStore
    \/ \E msg \in GuestMessages : GuestMessage(msg)

SpecPrompt == KeyInit /\ [][PromptNext]_vars

\* ------------------------------------- encrypt_content and decrypt_content
\* One plaintext is encrypted under the session key of some MEK and session
\* id, and the envelope is decrypted under the session key of some MEK and
\* session id, the same or another.
CInit ==
    /\ message_queue = <<>>
    /\ is_connected = FALSE
    /\ reconnect_attempt = 0
    /\ sock = "none"
    /\ now = 0
    /\ ticks = 0
    /\ produced = 0
    /\ bursts = 0
    /\ sockets = 0
    /\ QueueGhostIdle
    /\ AppIdle
    /\ EnvIdle
    /\ BackoffIdle
    /\ ExitIdle
    /\ KeyIdle
    /\ GuestIdle
    /\ LaterIdle
    /\ enc_mek \in Meks
    /\ enc_session \in SessionIds
    /\ enc_plain \in Plaintexts
    /\ enc_envelope = None
    /\ dec_key = 0
    /\ decrypted = None

COthersUnchanged ==
    UNCHANGED <<clientVars, appVars, envVars, backoffVars, queueGhostVars,
                now, ticks, produced, bursts, sockets, exitVars, keyVars,
                guestVars, laterVars>>

\* encrypt_content(derive_session_key(M, S), x), with the nonce drawn
Encrypt(nonce) ==
    /\ ~enc_envelope.some
    /\ enc_envelope' = Some(encrypt_content(
                             derive_session_key(enc_mek, enc_session),
                             enc_plain, nonce))
    /\ UNCHANGED <<enc_mek, enc_session, enc_plain, dec_key, decrypted>>
    /\ COthersUnchanged

\* decrypt_content(derive_session_key(M2, S2), envelope)
Decrypt(m, sid) ==
    /\ enc_envelope.some
    /\ ~decrypted.some
    /\ dec_key' = derive_session_key(m, sid)
    /\ decrypted' = Some(decrypt_content(derive_session_key(m, sid),
                                         enc_envelope.v))
    /\ UNCHANGED <<enc_mek, enc_session, enc_plain, enc_envelope>>
    /\ COthersUnchanged

CNext ==
    \/ \E nonce \in Nonces : Encrypt(nonce)
    \/ \E m \in Meks, sid \in SessionIds : Decrypt(m, sid)

SpecCrypto == CInit /\ [][CNext]_vars

\* ------------------------------------------------- the device flow (auth.rs)
\* ui::animation_interval(), milliseconds
ANIMATION_INTERVAL_MS == 80

\* how much "slow_down" adds to the interval, seconds
SLOW_DOWN_SECS == 5

\* the intervals and lifetimes the server supplies, seconds
ServerIntervals == {1, 2}

ServerExpiresIn == {3, 9}

\* how much longer than asked tokio::time::sleep may take, and how long a
\* token request takes to be answered, milliseconds
SleepOvershoots == {0, 20}

\* tokio::time::sleep(animation_interval): at least the interval
Slept(overshoot) ==
    /\ overshoot > 0 => late_sleeps < MaxLateSleeps
    /\ late_sleeps' = late_sleeps + (IF overshoot > 0 THEN 1 ELSE 0)

RoundTrips == {10, 60}

\* what event::poll/event::read report at the top of the loop
PollKeys == {"none", "other", "esc", "ctrl_c"}

\* what the token endpoint answers: success, the OAuth errors, another error
\* body, no answer at all, or an error status with a body that does not parse
TokenAnswers == {"ok", "authorization_pending", "slow_down", "expired_token",
                 "access_denied", "other", "network_error", "unparsable"}

\* everything but the device flow: the session has not begun
SessionIdle ==
    /\ message_queue = <<>>
    /\ is_connected = FALSE
    /\ reconnect_attempt = 0
    /\ sock = "none"
    /\ now = 0
    /\ ticks = 0
    /\ produced = 0
    /\ bursts = 0
    /\ sockets = 0
    /\ QueueGhostIdle
    /\ AppIdle
    /\ EnvIdle
    /\ BackoffIdle
    /\ ExitIdle
    /\ KeyIdle
    /\ CryptoIdle
    /\ GuestIdle

sessionVars == <<clientVars, appVars, envVars, backoffVars, queueGhostVars,
                now, ticks, produced, bursts, sockets, exitVars, keyVars,
                cryptoVars, guestVars, credVars, term, was_raw, tty_paste,
                startVars, loopVars, tailVars>>

\* poll_for_token's ticks_per_poll, the integer division included
ticks_per_poll(interval_secs) ==
    (interval_secs * 1000) \div ANIMATION_INTERVAL_MS

\* what the match on the error body makes of the answer: the new interval,
\* and "continue", "restart" or the result poll_for_token returns
answer_outcome(answer) ==
    CASE answer = "ok" -> "Ok"
      [] answer = "network_error" -> "NetworkError"
      [] answer = "unparsable" -> "ParseError"
      [] answer = "authorization_pending" -> "continue"
      [] answer = "slow_down" -> "continue"
      [] answer = "expired_token" -> "ExpiredToken"
      [] answer = "access_denied" -> "AccessDenied"
      [] OTHER -> "ServerError"

\* poll_for_token's cleanup closure: the cursor is shown and raw mode is
\* disabled
cleanup ==
    /\ cursor_hidden' = FALSE
    /\ tty_raw' = FALSE

\* the returns of poll_for_token that come after a call of cleanup: all but
\* the two that leave through the ? operator
cleans_up(returned) == returned \notin {"NetworkError", "ParseError"}

\* authenticate() on what poll_for_token returned: ExpiredToken starts the
\* loop again, anything else is returned
authenticate_ExpiredIsError(returned) ==
    /\ authPc' = "done"
    /\ auth_result' = returned

authenticate(returned) ==
    IF returned = "ExpiredToken"
    THEN /\ authPc' = "start"
         /\ auth_result' = "none"
    ELSE /\ authPc' = "done"
         /\ auth_result' = returned

\* start_device_flow(), called at the top of authenticate()'s loop, and the
\* start of poll_for_token(), which enables raw mode and hides the cursor
StartDeviceFlow(ok, interval, expires) ==
    /\ authPc = "start"
    /\ device_flows < MaxFlows
    /\ IF ok
       THEN /\ device_flows' = device_flows + 1
            /\ device_code' = device_flows + 1
            /\ elapsed_ms' = 0
            /\ current_interval_secs' = interval
            /\ expires_in' = expires
            /\ ticks_until_poll' = 0
            /\ authPc' = "poll"
            /\ auth_result' = "none"
            /\ tty_raw' = TRUE
            /\ cursor_hidden' = TRUE
       ELSE /\ authPc' = "done"
            /\ auth_result' = "ServerError"
            /\ UNCHANGED <<device_flows, device_code, elapsed_ms,
                           current_interval_secs, expires_in,
                           ticks_until_poll, tty_raw, cursor_hidden>>
    /\ UNCHANGED <<late_sleeps, polls, last_poll, poll_gap, sessionVars>>

\* one turn of poll_for_token's loop that ends before the sleep: a key that
\* ends the flow, or the device code found expired
PollEnds(key) ==
    /\ authPc = "poll"
    /\ \/ /\ key = "ctrl_c"
          /\ authenticate("Cancelled")
       \/ /\ key = "esc"
          /\ authenticate("Skipped")
       \/ /\ key \in {"none", "other"}
          /\ elapsed_ms >= expires_in * 1000
          /\ authenticate("ExpiredToken")
    /\ cleanup
    /\ UNCHANGED <<device_flows, device_code, elapsed_ms, current_interval_secs,
                   expires_in, ticks_until_poll, late_sleeps, polls, last_poll,
                   poll_gap, sessionVars>>

\* one turn that sleeps and counts a tick but makes no request
PollTick(key, overshoot) ==
    /\ authPc = "poll"
    /\ key \in {"none", "other"}
    /\ elapsed_ms < expires_in * 1000
    /\ ticks_until_poll + 1 < ticks_per_poll(current_interval_secs)
    /\ Slept(overshoot)
    /\ ticks_until_poll' = ticks_until_poll + 1
    /\ elapsed_ms' = elapsed_ms + ANIMATION_INTERVAL_MS + overshoot
    /\ UNCHANGED <<authPc, auth_result, device_flows, device_code,
                   current_interval_secs, expires_in, polls, last_poll,
                   poll_gap, tty_raw, cursor_hidden, sessionVars>>

\* one turn that sleeps, makes the token request and acts on the answer
PollRequest(key, overshoot, answer, rtt) ==
    /\ authPc = "poll"
    /\ key \in {"none", "other"}
    /\ elapsed_ms < expires_in * 1000
    /\ ticks_until_poll + 1 >= ticks_per_poll(current_interval_secs)
    /\ polls < MaxPolls
    /\ Slept(overshoot)
    /\ LET sent == elapsed_ms + ANIMATION_INTERVAL_MS + overshoot
           outcome == answer_outcome(answer)
       IN  /\ ticks_until_poll' = 0
           /\ polls' = polls + 1
           /\ last_poll' = [some |-> TRUE, at |-> sent, code |-> device_code,
                            answer |-> answer, after |-> last_poll.answer]
           /\ poll_gap' =
                IF last_poll.some /\ last_poll.code = device_code
                THEN [some |-> TRUE, ms |-> sent - last_poll.at,
                      interval |-> current_interval_secs,
                      slowed |-> last_poll.answer = "slow_down"]
                ELSE [some |-> FALSE, ms |-> 0, interval |-> 0,
                      slowed |-> FALSE]
           /\ elapsed_ms' = sent + rtt
           /\ current_interval_secs' =
                IF answer = "slow_down"
                THEN current_interval_secs + SLOW_DOWN_SECS
                ELSE current_interval_secs
           /\ IF outcome = "continue"
              THEN UNCHANGED <<authPc, auth_result, tty_raw, cursor_hidden>>
              ELSE /\ authenticate(outcome)
                   /\ IF cleans_up(outcome)
                      THEN cleanup
                      ELSE UNCHANGED <<tty_raw, cursor_hidden>>
    /\ UNCHANGED <<device_flows, device_code, expires_in, sessionVars>>

AuthInit ==
    /\ SessionIdle
    /\ LaterIdle

AuthNext ==
    \/ \E ok \in BOOLEAN, interval \in ServerIntervals,
          expires \in ServerExpiresIn : StartDeviceFlow(ok, interval, expires)
    \/ \E key \in PollKeys : PollEnds(key)
    \/ \E key \in PollKeys, overshoot \in SleepOvershoots :
          PollTick(key, overshoot)
    \/ \E key \in PollKeys, overshoot \in SleepOvershoots,
          answer \in TokenAnswers, rtt \in RoundTrips :
          PollRequest(key, overshoot, answer, rtt)

SpecAuth == AuthInit /\ [][AuthNext]_vars

\* --------------------------- the credential store and the start of run()
\* how a device flow ends: the user approves, presses ESC or Ctrl-C while
\* the token is polled for, or the flow fails
FlowEvents == {"approved", "esc", "ctrl_c", "failed"}

\* what authenticate_with_mek returns then: tokens and a MEK, or an AuthError
authenticate_with_mek(event) ==
    CASE event = "approved" -> "Ok"
      [] event = "esc" -> "Skipped"
      [] event = "ctrl_c" -> "Cancelled"
      [] OTHER -> "ServerError"

\* what is_token_valid makes of the stored access token
Validities == {"valid", "expired", "unparsable"}

\* what the refresh endpoint answers
RefreshAnswers == {"ok", "invalid_grant", "error"}

\* the outcomes of the storage calls and of the network calls of one
\* ensure_authenticated_with_mek
AllEnsureInputs ==
    [get_mek : BOOLEAN, get_tokens : BOOLEAN, valid : Validities,
     refresh : RefreshAnswers, clear : BOOLEAN, flow : FlowEvents,
     store : BOOLEAN]

\* those of them that differ in an outcome the function can come to ask for:
\* nothing is asked after a failed read, no refresh is made for a token that
\* is not expired, and a refresh that was not refused is the last call but
\* the storing
EnsureInputs ==
    {in \in AllEnsureInputs :
        /\ ~in.get_mek => in.get_tokens
        /\ ~(in.get_mek /\ in.get_tokens) =>
              /\ in.valid = "valid" /\ in.refresh = "ok" /\ in.clear
              /\ in.flow = "approved" /\ in.store
        /\ in.valid = "unparsable" =>
              in.refresh = "ok" /\ in.clear /\ in.flow = "approved" /\ in.store
        /\ in.valid = "valid" => in.refresh = "ok"
        /\ (in.valid = "expired" /\ in.refresh # "invalid_grant") =>
              in.clear /\ in.flow = "approved"
        /\ (in.valid = "expired" /\ in.refresh = "error") => in.store}

\* CredentialStore::clear_tokens(): what is stored afterwards and whether Ok
\* is returned.  With the keychain the result of each deletion is discarded;
\* with the fallback file a failed update is returned.
clear_tokens(tokens, keychain, deleted) ==
    [stored |-> IF deleted THEN None ELSE tokens,
     ok |-> keychain \/ deleted]

Ok(token, m) == [ok |-> TRUE, token |-> token, mek |-> m, err |-> "none"]

Err(e) == [ok |-> FALSE, token |-> 0, mek |-> 0, err |-> e]

\* the device flow at the end of ensure_authenticated_with_mek, and the
\* storing of what it returned
ensure_flow(tokens, mekv, fresh, in) ==
    IF authenticate_with_mek(in.flow) # "Ok"
    THEN [result |-> Err(authenticate_with_mek(in.flow)), tokens |-> tokens, mek |-> mekv,
          issued |-> 0, sent |-> None, flow |-> in.flow]
    ELSE IF ~in.store
    THEN [result |-> Err("KeychainError"), tokens |-> tokens, mek |-> mekv,
          issued |-> 1, sent |-> None, flow |-> in.flow]
    ELSE [result |-> Ok(fresh, fresh), tokens |-> Some(fresh),
          mek |-> Some(fresh), issued |-> 1, sent |-> None, flow |-> in.flow]

\* ensure_authenticated_with_mek(): the result, what the store holds
\* afterwards, how many token pairs the server issued, the pair sent to the
\* refresh endpoint, and how the device flow ended ("none": not run)
ensure_authenticated_with_mek(tokens, mekv, keychain, fresh, in) ==
    LET unchanged(r, sent) ==
            [result |-> r, tokens |-> tokens, mek |-> mekv, issued |-> 0,
             sent |-> sent, flow |-> "none"]
        cleared == clear_tokens(tokens, keychain, in.clear)
        refused(sent) ==
            IF cleared.ok
            THEN [ensure_flow(cleared.stored, mekv, fresh, in)
                    EXCEPT !.sent = sent]
            ELSE [result |-> Err("KeychainError"), tokens |-> cleared.stored,
                  mek |-> mekv, issued |-> 0, sent |-> sent, flow |-> "none"]
    IN  IF ~in.get_mek \/ ~in.get_tokens
        THEN unchanged(Err("KeychainError"), None)
        ELSE IF ~tokens.some
        THEN ensure_flow(tokens, mekv, fresh, in)
        ELSE IF ~mekv.some
        THEN refused(None)
        ELSE IF in.valid \in {"valid", "unparsable"}
        THEN unchanged(Ok(tokens.v, mekv.v), None)
        ELSE CASE in.refresh = "ok" ->
                    IF in.store
                    THEN [result |-> Ok(fresh, mekv.v), tokens |-> Some(fresh),
                          mek |-> mekv, issued |-> 1, sent |-> tokens,
                          flow |-> "none"]
                    ELSE [result |-> Err("KeychainError"), tokens |-> tokens,
                          mek |-> mekv, issued |-> 1, sent |-> tokens,
                          flow |-> "none"]
               [] in.refresh = "invalid_grant" -> refused(tokens)
               [] OTHER -> unchanged(Ok(tokens.v, mekv.v), tokens)

\* try_authenticate_with_mek() on that result: the error's text decides
\* between Offline and Cancelled; get_mek() is read again for Offline
try_authenticate_with_mek_SkipCancels(ensured, get_mek) ==
    IF ensured.result.ok
    THEN [tag |-> "Success", token |-> Some(ensured.result.token),
          mek |-> Some(ensured.result.mek), warned |-> FALSE]
    ELSE IF ensured.result.err \in {"Skipped", "Cancelled"}
    THEN [tag |-> "Cancelled", token |-> None, mek |-> None, warned |-> FALSE]
    ELSE [tag |-> "Offline", token |-> None,
          mek |-> IF get_mek THEN ensured.mek ELSE None, warned |-> TRUE]

try_authenticate_with_mek(ensured, get_mek) ==
    LET mek_from_keychain == IF get_mek THEN ensured.mek ELSE None
    IN  IF ensured.result.ok
        THEN [tag |-> "Success", token |-> Some(ensured.result.token),
              mek |-> Some(ensured.result.mek), warned |-> FALSE]
        ELSE IF ensured.result.err = "Skipped"
        THEN [tag |-> "Offline", token |-> None, mek |-> mek_from_keychain,
              warned |-> FALSE]
        ELSE IF ensured.result.err = "Cancelled"
        THEN [tag |-> "Cancelled", token |-> None, mek |-> None,
              warned |-> FALSE]
        ELSE [tag |-> "Offline", token |-> None, mek |-> mek_from_keychain,
              warned |-> TRUE]

\* get_or_create_session_id(): the id returned and what is stored afterwards
get_or_create_session_id_IgnoresResume(stored, res, fresh, getOk, storeOk) ==
    IF ~storeOk
    THEN [ok |-> FALSE, id |-> 0, stored |-> stored]
    ELSE [ok |-> TRUE, id |-> fresh, stored |-> Some(fresh)]

get_or_create_session_id(stored, res, fresh, getOk, storeOk) ==
    IF res /\ ~getOk
    THEN [ok |-> FALSE, id |-> 0, stored |-> stored]
    ELSE IF res /\ stored.some
    THEN [ok |-> TRUE, id |-> stored.v, stored |-> stored]
    ELSE IF ~storeOk
    THEN [ok |-> FALSE, id |-> 0, stored |-> stored]
    ELSE [ok |-> TRUE, id |-> fresh, stored |-> Some(fresh)]

\* the TerminalManager and the terminal it manages
Terminal == [was_raw |-> was_raw, raw |-> tty_raw, paste |-> tty_paste]

\* whether enable_raw_mode / disable_raw_mode succeeds, and whether the write
\* of the bracketed-paste sequence to stdout does
TermIo == [raw : BOOLEAN, paste : BOOLEAN]

\* every call succeeds
AllOk == [raw |-> TRUE, paste |-> TRUE]

\* TerminalManager::enter_raw_mode()
enter_raw_mode(t, io) ==
    IF t.was_raw
    THEN [t |-> t, ok |-> TRUE]
    ELSE IF ~io.raw
    THEN [t |-> t, ok |-> FALSE]
    ELSE IF ~io.paste
    THEN [t |-> [t EXCEPT !.raw = TRUE], ok |-> FALSE]
    ELSE [t |-> [was_raw |-> TRUE, raw |-> TRUE, paste |-> TRUE],
          ok |-> TRUE]

\* TerminalManager::exit_raw_mode()
exit_raw_mode(t, io) ==
    IF ~t.was_raw
    THEN [t |-> t, ok |-> TRUE]
    ELSE LET p == IF io.paste THEN FALSE ELSE t.paste
         IN  IF ~io.raw
             THEN [t |-> [t EXCEPT !.paste = p], ok |-> FALSE]
             ELSE [t |-> [was_raw |-> FALSE, raw |-> FALSE, paste |-> p],
                   ok |-> TRUE]

\* Drop for TerminalManager: exit_raw_mode(), its result discarded
drop(t, io) == exit_raw_mode(t, io).t

\* the terminal after t, the manager alive or dropped
SetTerminal(t, state) ==
    /\ term' = state
    /\ was_raw' = t.was_raw
    /\ tty_raw' = t.raw
    /\ tty_paste' = t.paste

\* run() returns: the TerminalManager, if there is one, is dropped
Return(result, t, io) ==
    /\ startPc' = "ended"
    /\ run_result' = result
    /\ IF term = "none" /\ t = Terminal
       THEN UNCHANGED termVars
       ELSE SetTerminal(drop(t, io), "dropped")

CliErr(e) == [tag |-> e, code |-> 0]

\* what the steps of the start leave alone
StartUnused ==
    UNCHANGED <<message_queue, reconnect_attempt, recv_result, ws_msgs, mainPc,
                reconnect_backoff_secs, inbound, failures, delivered,
                backoffVars, queueGhostVars, now, ticks, produced, bursts,
                child, reader, shutdown_rx, pty_input, exit_code, keyVars,
                cryptoVars, guestVars, authVars, use_keychain, loopVars,
                tailVars>>

NotConnected == UNCHANGED <<ws_client, connection_state, is_connected, sock,
                            sockets, wire>>

\* run(), the authentication: try_authenticate_with_mek(), and for Offline
\* without a stored MEK a new MEK, stored if the store takes it
AuthStep(in, get_mek, store_mek) ==
    /\ startPc = "auth"
    /\ LET ensured == ensure_authenticated_with_mek(stored_tokens, stored_mek,
                          use_keychain, next_token, in)
           tried == try_authenticate_with_mek(ensured, get_mek)
           refused == /\ in.get_mek /\ in.get_tokens
                      /\ stored_tokens.some /\ stored_mek.some
                      /\ in.valid = "expired" /\ in.refresh = "invalid_grant"
           generate == tried.tag = "Offline" /\ ~tried.mek.some
           new_mek == next_token + ensured.issued
       IN  /\ attempt' = IF generate THEN [tried EXCEPT !.mek = Some(new_mek)]
                         ELSE tried
           /\ stored_tokens' = ensured.tokens
           /\ stored_mek' = IF generate /\ store_mek THEN Some(new_mek)
                            ELSE ensured.mek
           /\ next_token' = next_token + ensured.issued
                            + (IF generate THEN 1 ELSE 0)
           /\ rejected' = IF refused THEN rejected \cup {stored_tokens.v}
                          ELSE rejected
           /\ reuse' = \/ reuse
                       \/ ensured.sent.some /\ ensured.sent.v \in rejected
                       \/ ensured.result.ok /\ ensured.result.token \in rejected'
           /\ ensure_log' = [invalid_grant |-> refused,
                             cleared |-> ~ensured.tokens.some
                                         \/ ensured.tokens.v \notin rejected',
                             flow |-> ensured.flow]
           /\ IF tried.tag = "Cancelled"
              THEN Return([tag |-> "Ok", code |-> 0], Terminal,
                          AllOk)
              ELSE /\ startPc' = "session"
                   /\ UNCHANGED <<run_result, termVars>>
    /\ UNCHANGED <<runs, stored_session, next_session, resume, run_session,
                   session_log, spawned, hook_token>>
    /\ NotConnected
    /\ StartUnused

\* run(), get_or_create_session_id(&cred_store, resume)?
SessionStep(getOk, storeOk) ==
    /\ startPc = "session"
    /\ LET got == get_or_create_session_id(stored_session, resume,
                                           next_session, getOk, storeOk)
       IN  /\ stored_session' = got.stored
           /\ session_log' = [called |-> TRUE, resume |-> resume,
                              before |-> stored_session, ok |-> got.ok]
           /\ next_session' = IF got.ok /\ got.id = next_session
                              THEN next_session + 1 ELSE next_session
           /\ IF got.ok
              THEN /\ run_session' = Some(got.id)
                   /\ startPc' = "terminal"
                   /\ UNCHANGED <<run_result, termVars>>
              ELSE /\ run_session' = None
                   /\ Return(CliErr("KeychainError"), Terminal,
                             AllOk)
    /\ UNCHANGED <<runs, attempt, ensure_log, resume, spawned, hook_token,
                   stored_tokens, stored_mek, next_token, rejected, reuse>>
    /\ NotConnected
    /\ StartUnused

\* run(), TerminalManager::new()? and terminal.enter_raw_mode()?
TerminalStep(io, dropIo) ==
    /\ startPc = "terminal"
    /\ LET entered == enter_raw_mode(Terminal, io)
       IN  IF entered.ok
           THEN /\ SetTerminal(entered.t, "alive")
                /\ startPc' = "hooks"
                /\ UNCHANGED run_result
           ELSE Return(CliErr("IoError"), entered.t, dropIo)
    /\ UNCHANGED <<runs, attempt, ensure_log, resume, run_session, session_log,
                   spawned, hook_token, credVars>>
    /\ NotConnected
    /\ StartUnused

\* run(), the notice about hooks: raw mode is left for it and entered again
HooksStep(notice, exitIo, enterIo, dropIo) ==
    /\ startPc = "hooks"
    /\ IF ~notice
       THEN /\ startPc' = "spawn"
            /\ UNCHANGED <<run_result, termVars>>
       ELSE LET left == exit_raw_mode(Terminal, exitIo)
                entered == enter_raw_mode(left.t, enterIo)
            IN  IF ~left.ok
                THEN Return(CliErr("IoError"), left.t, dropIo)
                ELSE IF ~entered.ok
                THEN Return(CliErr("IoError"), entered.t, dropIo)
                ELSE /\ SetTerminal(entered.t, "alive")
                     /\ startPc' = "spawn"
                     /\ UNCHANGED run_result
    /\ UNCHANGED <<runs, attempt, ensure_log, resume, run_session, session_log,
                   spawned, hook_token, credVars>>
    /\ NotConnected
    /\ StartUnused

\* run(), PtyManager::spawn_with_env(): the access token, if there is one,
\* is in the child's environment; a failed spawn leaves raw mode and returns
SpawnStep(ok, exitIo, dropIo) ==
    /\ startPc = "spawn"
    /\ IF ok
       THEN /\ spawned' = TRUE
            /\ hook_token' = attempt.token
            /\ startPc' = "connect"
            /\ UNCHANGED <<run_result, termVars>>
       ELSE LET left == exit_raw_mode(Terminal, exitIo)
            IN  /\ Return(CliErr(IF left.ok THEN "SpawnError" ELSE "IoError"),
                          left.t, dropIo)
                /\ UNCHANGED <<spawned, hook_token>>
    /\ UNCHANGED <<runs, attempt, ensure_log, resume, run_session, session_log,
                   credVars>>
    /\ NotConnected
    /\ StartUnused

\* run(), connect_websocket() if there is an access token, and the
\* connection state the main loop starts with
ConnectStep(relayOk, budget) ==
    /\ startPc = "connect"
    /\ startPc' = "running"
    /\ LET dc == do_connect(<<>>, 0, relayOk, budget)
       IN  IF attempt.token.some /\ send_session_attach(dc, budget)
           THEN /\ ws_client' = "Some"
                /\ connection_state' = "Attached"
                /\ is_connected' = TRUE
                /\ sock' = "alive"
                /\ sockets' = sockets + 1
                /\ wire' = HandshakeFrames(dc, budget)
           ELSE /\ ws_client' = "None"
                /\ connection_state' = "Detached"
                /\ is_connected' = FALSE
                /\ sock' = "none"
                /\ sockets' = sockets + (IF attempt.token.some /\ dc.opened
                                         THEN 1 ELSE 0)
                /\ wire' = <<>>
    /\ UNCHANGED <<runs, attempt, ensure_log, resume, run_session, session_log,
                   spawned, hook_token, credVars, termVars, run_result>>
    /\ StartUnused

\* how run() ends once the main loop runs: Ok(exit_code), an I/O error out of
\* the loop, or a panic that unwinds
RunEnds(how, dropIo) ==
    /\ startPc = "running"
    /\ Return(IF how = "Ok" THEN [tag |-> "Ok", code |-> 0] ELSE CliErr(how),
              Terminal, dropIo)
    /\ ws_client' = "None"
    /\ connection_state' = "Detached"
    /\ is_connected' = FALSE
    /\ sock' = "none"
    /\ UNCHANGED <<sockets, wire>>
    /\ UNCHANGED <<runs, attempt, ensure_log, resume, run_session, session_log,
                   spawned, hook_token, credVars>>
    /\ StartUnused

\* the program is started again, with or without --resume
Restart(res) ==
    /\ startPc = "ended"
    /\ runs < MaxRuns
    /\ runs' = runs + 1
    /\ startPc' = "auth"
    /\ attempt' = NoAttempt
    /\ ensure_log' = NoEnsure
    /\ resume' = res
    /\ run_session' = None
    /\ session_log' = NoSession
    /\ spawned' = FALSE
    /\ hook_token' = None
    /\ run_result' = [tag |-> "none", code |-> 0]
    /\ term' = "none"
    /\ was_raw' = FALSE
    /\ sockets' = 0
    /\ wire' = <<>>
    /\ UNCHANGED <<tty_raw, tty_paste, ws_client, connection_state,
                   is_connected, sock, credVars>>
    /\ StartUnused

\* the program's first start: nothing connected, some credential store
StartInit ==
    /\ message_queue = <<>>
    /\ is_connected = FALSE
    /\ reconnect_attempt = 0
    /\ sock = "none"
    /\ now = 0
    /\ ticks = 0
    /\ produced = 0
    /\ bursts = 0
    /\ sockets = 0
    /\ QueueGhostIdle
    /\ ws_client = "None"
    /\ connection_state = "Detached"
    /\ recv_result = "idle"
    /\ ws_msgs = 0
    /\ mainPc = "select"
    /\ reconnect_backoff_secs = INITIAL_RECONNECT_BACKOFF_SECS
    /\ EnvIdle
    /\ BackoffIdle
    /\ ExitIdle
    /\ KeyIdle
    /\ CryptoIdle
    /\ GuestIdle
    /\ AuthIdle
    /\ LoopIdle
    /\ TailIdle
    /\ TermIdle
    /\ use_keychain \in BOOLEAN
    /\ stored_tokens = None
    /\ stored_mek = None
    /\ stored_session = None
    /\ next_token = 1
    /\ next_session = 1
    /\ rejected = {}
    /\ reuse = FALSE
    /\ startPc = "auth"
    /\ runs = 1
    /\ attempt = NoAttempt
    /\ ensure_log = NoEnsure
    /\ resume \in BOOLEAN
    /\ run_session = None
    /\ session_log = NoSession
    /\ spawned = FALSE
    /\ hook_token = None

StartNext ==
    \/ \E in \in EnsureInputs, get_mek \in BOOLEAN, store_mek \in BOOLEAN :
          AuthStep(in, get_mek, store_mek)
    \/ \E getOk \in BOOLEAN, storeOk \in BOOLEAN : SessionStep(getOk, storeOk)
    \/ \E io \in TermIo, dropIo \in TermIo : TerminalStep(io, dropIo)
    \/ HooksStep(FALSE, AllOk, AllOk, AllOk)
    \/ \E exitIo \in TermIo, enterIo \in TermIo, dropIo \in TermIo :
          HooksStep(TRUE, exitIo, enterIo, dropIo)
    \/ \E ok \in BOOLEAN, exitIo \in TermIo, dropIo \in TermIo :
          SpawnStep(ok, exitIo, dropIo)
    \/ \E relayOk \in BOOLEAN, budget \in SendBudgets :
          ConnectStep(relayOk, budget)
    \/ \E how \in {"Ok", "IoError", "panic"}, dropIo \in TermIo :
          RunEnds(how, dropIo)
    \/ \E res \in BOOLEAN : Restart(res)

SpecStart == StartInit /\ [][StartNext]_vars

\* --------------------------------------- the guest's event loop (terminal.rs)
\* the terminal events the guest reads: keys, and Ctrl+Q; the loop handles
\* fewer than MaxKeys events in all
GuestKeys == {"a", "Enter", "Backspace", "F13", "CtrlQ"}

\* the texts of paste events
PasteTexts == {<<98, 99>>}

\* key_event_to_bytes()
key_event_to_bytes(key) ==
    CASE key = "a" -> <<97>>
      [] key = "Enter" -> <<13>>
      [] key = "Backspace" -> <<127>>
      [] OTHER -> <<>>

\* GuestClient::send_prompt(): the EncryptedPrompt frame for the text
send_prompt(text, nonce) == encrypt_content(GuestSessionKey, text, nonce)

\* the plaintext of a prompt frame the guest sent
PromptText(frame) == decrypt_content(GuestSessionKey, frame).bytes

\* the history and the output the relay sends this guest: A, B, C under the
\* guest's key, and an envelope under another key
GuestA == encrypt_content(GuestSessionKey, <<65>>, Nonce(0))

GuestB == encrypt_content(GuestSessionKey, <<66>>, Nonce(200))

GuestC == encrypt_content(GuestSessionKey, <<67>>, Nonce(0))

GuestX == encrypt_content(derive_session_key(2, 1), <<65>>, Nonce(0))

GuestTraffic ==
    {[kind |-> "history", entries |-> batch] :
        batch \in {<<>>, <<GuestA, GuestB>>, <<GuestX, GuestA>>}}
    \cup {[kind |-> "output", entries |-> <<e>>] : e \in {GuestC, GuestX}}

GuestUnused ==
    UNCHANGED <<clientVars, appVars, envVars, backoffVars, queueGhostVars,
                now, ticks, produced, bursts, sockets, exitVars, keyVars,
                cryptoVars, laterVars>>

\* the keyboard arm on a key that is sent at once, whatever it is
KeyEvent_SendEach(key, sendOk, nonce) ==
    /\ guest_running
    /\ keys + prompts < MaxKeys
    /\ keys' = keys + 1
    /\ last_key' = key
    /\ guest_running' = (key # "CtrlQ")
    /\ guest_end' = IF key = "CtrlQ" THEN "ctrl_q" ELSE guest_end
    /\ UNCHANGED <<guest_pings, guest_frames>>
    /\ input_buffer' = <<>>
    /\ guest_sent' = IF key # "CtrlQ" /\ key_event_to_bytes(key) # <<>> /\ sendOk
                     THEN Append(guest_sent,
                                 send_prompt(key_event_to_bytes(key), nonce))
                     ELSE guest_sent
    /\ UNCHANGED <<guest_stdout, guest_seen, guest_kinds>>
    /\ GuestUnused

\* run_event_loop(), the keyboard arm on one key event: Ctrl+Q leaves the
\* loop; Enter sends the buffer, if there is one, with a newline and clears
\* it whether or not the send succeeded; any other key with bytes is added
\* to the buffer
KeyEvent(key, sendOk, nonce) ==
    /\ guest_running
    /\ keys + prompts < MaxKeys
    /\ keys' = keys + 1
    /\ last_key' = key
    /\ guest_running' = (key # "CtrlQ")
    /\ guest_end' = IF key = "CtrlQ" THEN "ctrl_q" ELSE guest_end
    /\ UNCHANGED <<guest_pings, guest_frames>>
    /\ IF key = "CtrlQ" \/ key_event_to_bytes(key) = <<>>
       THEN UNCHANGED <<input_buffer, guest_sent>>
       ELSE IF key = "Enter"
       THEN IF input_buffer = <<>>
            THEN UNCHANGED <<input_buffer, guest_sent>>
            ELSE /\ guest_sent' =
                      IF sendOk
                      THEN Append(guest_sent,
                                  send_prompt(Append(input_buffer, 10), nonce))
                      ELSE guest_sent
                 /\ input_buffer' = <<>>
       ELSE /\ input_buffer' =
                 IF from_utf8(key_event_to_bytes(key)).ok
                 THEN input_buffer \o key_event_to_bytes(key)
                 ELSE input_buffer
            /\ UNCHANGED guest_sent
    /\ UNCHANGED <<guest_stdout, guest_seen, guest_kinds>>
    /\ GuestUnused

\* the keyboard arm on a paste event
PasteEvent(text) ==
    /\ guest_running
    /\ keys + prompts < MaxKeys
    /\ keys' = keys + 1
    /\ last_key' = "Paste"
    /\ input_buffer' = input_buffer \o text
    /\ UNCHANGED <<guest_stdout, guest_seen, guest_kinds, guest_running,
                   guest_sent, guest_end, guest_pings, guest_frames>>
    /\ GuestUnused

\* what ends the receive arm without a message to handle: the end of the
\* stream, a receive error, a close frame, a native WebSocket ping or pong,
\* or the session_detached message
RecvEnds == {"closed", "error", "ws_ping", "ws_pong", "detached"}

\* the receive arm on one of these: recv() answers a native ping with a
\* native pong; it returns Ok(None) for the end of the stream, a close frame
\* and a native ping or pong alike, and the loop is left; it is left on an
\* error and on session_detached as well
GuestRecvEnds(cause) ==
    /\ guest_running
    /\ guest_running' = FALSE
    /\ guest_end' = cause
    /\ guest_frames' = IF cause = "ws_ping"
                       THEN Append(guest_frames, "ws_pong")
                       ELSE guest_frames
    /\ UNCHANGED <<guest_stdout, guest_seen, guest_kinds, input_buffer,
                   guest_sent, keys, last_key, guest_pings>>
    /\ GuestUnused

\* handle_incoming_message(), the Ping arm: a task that does nothing is
\* spawned; Ok(true) is returned and the event loop goes on
GuestPing ==
    /\ guest_running
    /\ prompts < MaxPrompts
    /\ prompts' = prompts + 1
    /\ guest_pings' = guest_pings + 1
    /\ UNCHANGED <<guest_stdout, guest_seen, guest_running, guest_kinds,
                   input_buffer, guest_sent, keys, last_key, guest_end,
                   guest_frames>>
    /\ UNCHANGED <<clientVars, wire, delivered, produced, sockets, session_id,
                   mek, session_key, userPc, userOp, userKey, setPc, setArg,
                   chunks, ws_msg_rx, pty_input_rx, cryptoVars>>
    /\ UNCHANGED <<reconnect_attempt, appVars, inbound, failures, backoffVars,
                   queueGhostVars, now, ticks, bursts, exitVars,
                   laterVars>>

\* handle_incoming_message() when a write to stdout fails after written
\* plaintexts of the message were written: the error leaves the event loop
GuestWriteFails(msg, written) ==
    /\ guest_running
    /\ prompts < MaxPrompts
    /\ written < Len(GuestDecryptAll(msg.entries))
    /\ prompts' = prompts + 1
    /\ guest_seen' = guest_seen \o msg.entries
    /\ guest_kinds' = guest_kinds \o [i \in 1..Len(msg.entries) |-> msg.kind]
    /\ guest_stdout' = guest_stdout
                       \o SubSeq(GuestDecryptAll(msg.entries), 1, written)
    /\ guest_running' = FALSE
    /\ guest_end' = "write_failed"
    /\ UNCHANGED <<input_buffer, guest_sent, keys, last_key, guest_pings,
                   guest_frames>>
    /\ UNCHANGED <<clientVars, wire, delivered, produced, sockets, session_id,
                   mek, session_key, userPc, userOp, userKey, setPc, setArg,
                   chunks, ws_msg_rx, pty_input_rx, cryptoVars>>
    /\ UNCHANGED <<reconnect_attempt, appVars, inbound, failures, backoffVars,
                   queueGhostVars, now, ticks, bursts, exitVars,
                   laterVars>>

GuestInit ==
    /\ SessionIdle
    /\ LaterIdle

GuestNext ==
    \/ \E msg \in GuestTraffic : GuestMessage(msg)
    \/ \E key \in GuestKeys, sendOk \in BOOLEAN, nonce \in Nonces :
          KeyEvent(key, sendOk, nonce)
    \/ \E text \in PasteTexts : PasteEvent(text)
    \/ \E msg \in GuestTraffic, written \in 0..1 : GuestWriteFails(msg, written)
    \/ \E cause \in RecvEnds : GuestRecvEnds(cause)
    \/ GuestPing

SpecGuest == GuestInit /\ [][GuestNext]_vars

\* ------------------------------------------------ the main loop in time
\* run()'s main loop with the clock in milliseconds: the PTY-output arm, the
\* 10 ms tick arm with handle_reconnection_silent() awaited inside it, the
\* receiver task and the network.  Each step of the tick arm ends where the
\* code gives up a lock or awaits the clock.
TICK_MS == 10

\* the jitters drawn here: the ends of gen_range(0..1000)
LoopJitters == {0, JITTER_RANGE_MS - 1}

\* a stretch of ticks on which nothing is due
IDLE_MS == 1000

\* last_reconnect_attempt.elapsed().as_secs() >= reconnect_backoff_secs
AttemptDue ==
    (clock_ms - last_reconnect_attempt) \div 1000 >= reconnect_backoff_secs

LoopUnused ==
    UNCHANGED <<now, ticks, bursts, backoffVars, queueGhostVars, exitVars,
                keyVars, cryptoVars, guestVars, authVars, credVars, termVars,
                startVars, tailVars, ws_msgs, mainPc, inbound>>

LoopInit == Init

\* the PTY reader task sends a chunk on the output channel
PtyReads ==
    /\ produced < MaxOutputs
    /\ produced' = produced + 1
    /\ output_rx' = Append(output_rx, [id |-> produced + 1, at |-> clock_ms])
    /\ UNCHANGED <<clientVars, ws_client, connection_state, recv_result,
                   reconnect_backoff_secs, sockets, failures, wire, delivered,
                   loopPc, clock_ms, select_at, wake_at,
                   last_reconnect_attempt, advances, attempt_log>>
    /\ LoopUnused

\* the select's PTY-output arm: the chunk is written to the terminal and, in
\* state Attached, sent; the loop enters its select again
LoopPtyArm ==
    /\ loopPc = "select"
    /\ output_rx # <<>>
    /\ output_rx' = Tail(output_rx)
    /\ select_at' = clock_ms
    /\ IF connection_state = "Attached" /\ ws_client = "Some"
       THEN SendMessage(OutputMsg(Head(output_rx).id))
       ELSE UNCHANGED <<message_queue, wire, delivered>>
    /\ UNCHANGED <<is_connected, reconnect_attempt, sock, ws_client,
                   connection_state, recv_result, reconnect_backoff_secs,
                   produced, sockets, failures, loopPc, clock_ms, wake_at,
                   last_reconnect_attempt, advances, attempt_log>>
    /\ LoopUnused

\* the tick arm up to the call of handle_reconnection_silent(): the state is
\* read under its lock, which is released at once; if it is Reconnecting and
\* the backoff has elapsed, last_reconnect_attempt is set and the call comes
\* next; otherwise the loop enters its select again
LoopTick ==
    /\ loopPc = "select"
    /\ output_rx = <<>>
    /\ clock_ms - select_at >= TICK_MS
    /\ IF connection_state = "Reconnecting" /\ AttemptDue
       THEN /\ failures < MaxFailures
            /\ last_reconnect_attempt' = clock_ms
            /\ loopPc' = "checked"
            /\ UNCHANGED select_at
       ELSE /\ select_at' = clock_ms
            /\ UNCHANGED <<last_reconnect_attempt, loopPc>>
    /\ UNCHANGED <<clientVars, ws_client, connection_state, recv_result,
                   reconnect_backoff_secs, produced, sockets, failures, wire,
                   delivered, output_rx, clock_ms, wake_at, advances,
                   attempt_log>>
    /\ LoopUnused

\* handle_reconnection_silent() up to reconnect()'s sleep: the client lock is
\* taken; with a client below MAX_RECONNECT_ATTEMPTS the attempt is counted,
\* the delay is computed and the sleep begins, the lock held; otherwise the
\* fresh connection comes next
LoopReconnect(jitter) ==
    /\ loopPc = "checked"
    /\ IF ws_client = "None" \/ reconnect_attempt >= MAX_RECONNECT_ATTEMPTS
       THEN /\ loopPc' = "fresh"
            /\ UNCHANGED <<reconnect_attempt, wake_at, attempt_log>>
       ELSE /\ reconnect_attempt' = reconnect_attempt + 1
            /\ wake_at' = clock_ms + BackoffDelay(reconnect_attempt + 1, jitter)
            /\ attempt_log' = [some |-> TRUE, kind |-> "reconnect",
                               state |-> connection_state]
            /\ loopPc' = "sleeping"
    /\ UNCHANGED <<message_queue, is_connected, sock, ws_client,
                   connection_state, recv_result, reconnect_backoff_secs,
                   produced, sockets, failures, wire, delivered, output_rx,
                   clock_ms, select_at, last_reconnect_attempt, advances>>
    /\ LoopUnused

\* reconnect() after its sleep: do_connect() and send_session_attach(); on
\* Ok(true) the state is Attached, the tick arm resets its backoff and the
\* loop enters its select again; otherwise the fresh connection comes next
LoopReconnectWake(relayOk) ==
    /\ loopPc = "sleeping"
    /\ clock_ms >= wake_at
    /\ LET dc == do_connect(message_queue, now, relayOk, AllWrites)
           frames == HandshakeFrames(dc, AllWrites)
       IN  IF send_session_attach(dc, AllWrites)
           THEN /\ sockets < MaxSockets
                /\ sockets' = sockets + 1
                /\ is_connected' = TRUE
                /\ reconnect_attempt' = 0
                /\ message_queue' = dc.queue
                /\ sock' = "alive"
                /\ wire' = frames
                /\ delivered' = delivered \o OutputIds(frames)
                /\ connection_state' = "Attached"
                /\ reconnect_backoff_secs' = INITIAL_RECONNECT_BACKOFF_SECS
                /\ failures' = 0
                /\ loopPc' = "select"
                /\ select_at' = clock_ms
           ELSE /\ loopPc' = "fresh"
                /\ UNCHANGED <<clientVars, connection_state,
                               reconnect_backoff_secs, sockets, failures, wire,
                               delivered, select_at>>
    /\ UNCHANGED <<ws_client, recv_result, produced, output_rx, clock_ms,
                   wake_at, last_reconnect_attempt, advances, attempt_log>>
    /\ LoopUnused

\* the second half of handle_reconnection_silent(): ensure_authenticated and
\* connect_websocket() with a new client; then the tick arm's backoff update,
\* and the loop enters its select again
LoopFresh(authOk, relayOk) ==
    /\ loopPc = "fresh"
    /\ loopPc' = "select"
    /\ select_at' = clock_ms
    /\ attempt_log' = IF authOk
                      THEN [some |-> TRUE, kind |-> "fresh",
                            state |-> connection_state]
                      ELSE [some |-> FALSE, kind |-> "auth_error",
                            state |-> connection_state]
    /\ LET dc == do_connect(<<>>, now, relayOk, AllWrites)
           frames == HandshakeFrames(dc, AllWrites)
       IN  IF authOk /\ send_session_attach(dc, AllWrites)
           THEN /\ sockets < MaxSockets
                /\ sockets' = sockets + 1
                /\ ws_client' = "Some"
                /\ message_queue' = dc.queue
                /\ is_connected' = TRUE
                /\ reconnect_attempt' = 0
                /\ sock' = "alive"
                /\ wire' = frames
                /\ delivered' = delivered \o OutputIds(frames)
                /\ connection_state' = "Attached"
                /\ reconnect_backoff_secs' = INITIAL_RECONNECT_BACKOFF_SECS
                /\ failures' = 0
           ELSE /\ connection_state' = on_reconnect_failure(connection_state)
                /\ reconnect_backoff_secs' = NextBackoffSecs(reconnect_backoff_secs)
                /\ failures' = failures + 1
                /\ UNCHANGED <<clientVars, ws_client, sockets, wire, delivered>>
    /\ UNCHANGED <<recv_result, produced, output_rx, clock_ms, wake_at,
                   last_reconnect_attempt, advances>>
    /\ LoopUnused

\* the clock advances: in the select, with nothing to receive, to the end of
\* the 10 ms sleep, or over a stretch of ticks on which nothing is due; in
\* reconnect()'s sleep, to its end
LoopAdvance ==
    /\ advances < MaxAdvances
    /\ advances' = advances + 1
    /\ \/ /\ loopPc = "select"
          /\ output_rx = <<>>
          /\ clock_ms - select_at < TICK_MS
          /\ \/ clock_ms' = select_at + TICK_MS
             \/ /\ ~(connection_state = "Reconnecting" /\ AttemptDue)
                /\ clock_ms' = clock_ms + IDLE_MS
       \/ /\ loopPc = "sleeping"
          /\ clock_ms < wake_at
          /\ clock_ms' = wake_at
    /\ UNCHANGED <<clientVars, ws_client, connection_state, recv_result,
                   reconnect_backoff_secs, produced, sockets, failures, wire,
                   delivered, loopPc, select_at, wake_at,
                   last_reconnect_attempt, output_rx, attempt_log>>
    /\ LoopUnused

\* the network cuts the socket; the receiver task's recv() on it, which needs
\* the client lock that reconnect() holds through its sleep
LoopRecv ==
    /\ loopPc # "sleeping"
    /\ \E outcome \in DeadSocketResults : RecvPoll(outcome)

LoopNext ==
    \/ PtyReads
    \/ LoopPtyArm
    \/ LoopTick
    \/ \E jitter \in LoopJitters : LoopReconnect(jitter)
    \/ \E relayOk \in BOOLEAN : LoopReconnectWake(relayOk)
    \/ \E authOk \in BOOLEAN, relayOk \in BOOLEAN : LoopFresh(authOk, relayOk)
    \/ LoopAdvance
    \/ Sever
    \/ LoopRecv
    \/ RecvApply

SpecLoop == LoopInit /\ [][LoopNext]_vars

\* ------------------------------------------------- the mutexes of the host
\* The host shares Arc<Mutex<..>> values between the task of run() (the
\* event loop, the reconnect path and the shutdown code, app.rs) and the
\* receiver task it spawns (app.rs:284-333).  A path is the sequence of
\* guard operations one way through a piece of code performs: "lock" is
\* mutex.lock().await, "drop" the end of the guard's life, "await" any other
\* suspension point, "abort" ws_recv_handle.abort().  A task takes any path
\* of its code at any time: which one the data selects is left open.
Lock(m) == <<"lock", m>>

Drop(m) == <<"drop", m>>

Await(what) == <<"await", what>>

\* every way through a, then every way through b
Then(a, b) == {x \o y : x \in a, y \in b}

\* the code may be skipped
Maybe(a) == a \cup {<<>>}

\* websocket.rs queue_message: the queue guard, no suspension under it
queue_message_ops == {<<Lock("message_queue"), Drop("message_queue")>>}

\* websocket.rs send_message: not connected, queue; else send under the
\* sender guard; or no sender, drop the guard and queue
send_message_ops ==
    Then({<<Lock("is_connected"), Drop("is_connected")>>},
         queue_message_ops
         \cup {<<Lock("sender"), Await("socket_send"), Drop("sender")>>}
         \cup Then({<<Lock("sender"), Drop("sender")>>}, queue_message_ops))

\* websocket.rs get_or_derive_session_key: cached; no MEK; derived and cached
get_or_derive_session_key_ops ==
    Then({<<Lock("session_key"), Drop("session_key")>>},
         {<<>>,
          <<Lock("mek"), Drop("mek")>>,
          <<Lock("mek"), Drop("mek"),
            Lock("session_key"), Drop("session_key")>>})

\* websocket.rs send_output
send_output_ops == Then(get_or_derive_session_key_ops, send_message_ops)

\* websocket.rs drain_message_queue: the queue guard is held for the whole
\* drain, and the sender guard is taken under it for every message (one
\* message stands for the loop)
drain_message_queue_ops ==
    {<<Lock("message_queue"), Drop("message_queue")>>,
     <<Lock("message_queue"), Lock("sender"), Await("socket_send"),
       Drop("sender"), Drop("message_queue")>>}

\* websocket.rs do_connect, once connect_async has succeeded
do_connect_ops ==
    Then({<<Await("connect"),
            Lock("sender"), Drop("sender"),
            Lock("receiver"), Drop("receiver"),
            Lock("is_connected"), Drop("is_connected"),
            Lock("reconnect_attempt"), Drop("reconnect_attempt")>>},
         drain_message_queue_ops)

\* websocket.rs reconnect, the calls that fail: attempts used up, or
\* connect_async fails after the backoff sleep
reconnect_fails_ops ==
    {<<Lock("reconnect_attempt"), Drop("reconnect_attempt")>>,
     <<Lock("reconnect_attempt"), Drop("reconnect_attempt"),
       Await("sleep"), Await("connect")>>}

\* websocket.rs reconnect, the calls that reach send_session_attach
reconnect_ops ==
    Then(Then({<<Lock("reconnect_attempt"), Drop("reconnect_attempt"),
                 Await("sleep")>>},
              do_connect_ops),
         send_message_ops)

\* the same with session_detach sent after the sender guard is taken
close_ops_DetachUnderGuard ==
    Then(Then({<<Lock("is_connected"), Drop("is_connected"),
                 Lock("sender")>>},
              Maybe(send_message_ops)),
         {<<Await("socket_send"),
            Lock("is_connected"), Drop("is_connected"), Drop("sender")>>,
          <<Lock("is_connected"), Drop("is_connected"), Drop("sender")>>})

\* websocket.rs close: session_detach if connected, then the close frame
\* under the sender guard, and the connected flag cleared under it too
close_ops ==
    Then(Then({<<Lock("is_connected"), Drop("is_connected")>>},
              Maybe(send_message_ops)),
         {<<Lock("sender"), Await("socket_send"),
            Lock("is_connected"), Drop("is_connected"), Drop("sender")>>,
          <<Lock("sender"),
            Lock("is_connected"), Drop("is_connected"), Drop("sender")>>})

\* websocket.rs recv and handle_raw_message, all under the receiver guard:
\* no receiver; a message, pong or frame (or the caller's timeout drops the
\* future); an error, the end of the stream or a close frame, which clear
\* the connected flag; a ping, answered under the sender guard
recv_ops ==
    {<<Lock("receiver"), Drop("receiver")>>,
     <<Lock("receiver"), Await("socket_recv"), Drop("receiver")>>,
     <<Lock("receiver"), Await("socket_recv"),
       Lock("is_connected"), Drop("is_connected"), Drop("receiver")>>,
     <<Lock("receiver"), Await("socket_recv"),
       Lock("sender"), Await("socket_send"), Drop("sender"),
       Drop("receiver")>>}

\* app.rs, the PTY output arm: the state is copied out of its guard, and the
\* client guard is held across send_output
pty_output_ops ==
    Then({<<Lock("connection_state"), Drop("connection_state")>>},
         Maybe(Then(Then({<<Lock("ws_client")>>}, Maybe(send_output_ops)),
                    {<<Drop("ws_client")>>})))

\* app.rs, the EncryptedPrompt arm: the client guard is dropped before the
\* send to the PTY writer
encrypted_prompt_ops ==
    Then(Then({<<Lock("ws_client")>>}, Maybe(get_or_derive_session_key_ops)),
         {<<Drop("ws_client")>>, <<Drop("ws_client"), Await("channel_send")>>})

\* app.rs, the Ping arm: send_pong under the client guard
ping_ops ==
    Then(Then({<<Lock("ws_client")>>}, Maybe(send_message_ops)),
         {<<Drop("ws_client")>>})

\* app.rs handle_reconnection_silent, after the block that tries the
\* existing client: authenticate, connect, store the client and the state
fresh_connection_ops ==
    {<<Await("authenticate")>>,
     <<Await("authenticate"), Await("connect")>>,
     <<Await("authenticate"), Await("connect"),
       Lock("ws_client"), Drop("ws_client"),
       Lock("connection_state"), Drop("connection_state")>>}

\* app.rs handle_reconnection_silent: the client guard is held across
\* reconnect(), and Attached is stored under it
handle_reconnection_silent_ops ==
    Then(Then({<<Lock("ws_client")>>}, reconnect_ops),
         {<<Lock("connection_state"), Drop("connection_state"),
            Drop("ws_client")>>})
    \cup
    Then(Then(Then({<<Lock("ws_client")>>}, Maybe(reconnect_fails_ops)),
              {<<Drop("ws_client")>>}),
         fresh_connection_ops)

\* app.rs, the tick arm: the state is copied out of its guard
tick_ops ==
    Then({<<Lock("connection_state"), Drop("connection_state")>>},
         Maybe(handle_reconnection_silent_ops))

\* app.rs, after the event loop: close under the client guard, store
\* Detached, abort the receiver task
shutdown_ops ==
    Then(Then({<<Lock("ws_client")>>}, Maybe(close_ops)),
         {<<Drop("ws_client"),
            Lock("connection_state"), Drop("connection_state"),
            <<"abort", "receiver">>>>})

\* app.rs, one turn of the receiver task: has_connection under the client
\* guard; then the client guard again, held across timeout(recv()); then the
\* channel send or the store to the connection state with no guard held
receiver_ops ==
    {<<Lock("ws_client"), Drop("ws_client"), Await("sleep")>>}
    \cup
    Then(Then(Then({<<Lock("ws_client"), Drop("ws_client"),
                      Lock("ws_client")>>},
                   Maybe(recv_ops)),
              {<<Drop("ws_client")>>}),
         {<<>>,
          <<Await("channel_send")>>,
          <<Lock("connection_state"), Drop("connection_state")>>})

PathsOf(t) ==
    IF t = "main"
    THEN pty_output_ops \cup encrypted_prompt_ops \cup ping_ops
         \cup tick_ops \cup shutdown_ops
    ELSE receiver_ops

Idle(t) == taskPath[t] = <<>>

NextOp(t) == IF Idle(t) THEN <<"none", "none">> ELSE taskPath[t][taskPc[t]]

HeldBy(m) == {u \in Tasks : m \in guards[u]}

\* the task is parked in lock().await: the mutex has an owner
Blocked(t) == NextOp(t)[1] = "lock" /\ HeldBy(NextOp(t)[2]) # {}

\* the task is parked in an await that is not a mutex
Suspended(t) == NextOp(t)[1] = "await"

\* the operation at taskPc is done: on to the next, or the path is over
Advance(t) ==
    IF taskPc[t] = Len(taskPath[t])
    THEN /\ taskPath' = [taskPath EXCEPT ![t] = <<>>]
         /\ taskPc' = [taskPc EXCEPT ![t] = 1]
    ELSE /\ taskPc' = [taskPc EXCEPT ![t] = taskPc[t] + 1]
         /\ UNCHANGED taskPath

LockUnused ==
    UNCHANGED <<clientVars, appVars, envVars, backoffVars, queueGhostVars,
                now, ticks, produced, bursts, sockets, exitVars, keyVars,
                cryptoVars, guestVars, authVars, credVars, termVars,
                startVars, loopVars, interceptVars>>

\* a task starts on one of its paths; run() starts none after its cleanup
BeginPath(t, path) ==
    /\ Idle(t)
    /\ ~abort_requested
    /\ path # <<>>
    /\ taskPath' = [taskPath EXCEPT ![t] = path]
    /\ taskPc' = [taskPc EXCEPT ![t] = 1]
    /\ UNCHANGED <<guards, abort_requested>>
    /\ LockUnused

\* tokio::sync::Mutex::lock: granted when no guard of the mutex is alive,
\* the caller's own guards included
Acquire(t) ==
    /\ NextOp(t)[1] = "lock"
    /\ ~(t = "receiver" /\ abort_requested)
    /\ HeldBy(NextOp(t)[2]) = {}
    /\ guards' = [guards EXCEPT ![t] = @ \cup {NextOp(t)[2]}]
    /\ Advance(t)
    /\ UNCHANGED abort_requested
    /\ LockUnused

\* a guard goes out of scope or is dropped
Release(t) ==
    /\ NextOp(t)[1] = "drop"
    /\ guards' = [guards EXCEPT ![t] = @ \ {NextOp(t)[2]}]
    /\ Advance(t)
    /\ UNCHANGED abort_requested
    /\ LockUnused

\* an await completes: the socket, the timer, the channel
Resume(t) ==
    /\ Suspended(t)
    /\ ~(t = "receiver" /\ abort_requested)
    /\ Advance(t)
    /\ UNCHANGED <<guards, abort_requested>>
    /\ LockUnused

\* ws_recv_handle.abort()
AbortReceiver ==
    /\ NextOp("main")[1] = "abort"
    /\ abort_requested' = TRUE
    /\ Advance("main")
    /\ UNCHANGED guards
    /\ LockUnused

\* the aborted task is dropped at the suspension point it is parked in, and
\* its guards with it
Cancelled ==
    /\ abort_requested
    /\ ~Idle("receiver") \/ guards["receiver"] # {}
    /\ NextOp("receiver")[1] # "drop"
    /\ taskPath' = [taskPath EXCEPT !["receiver"] = <<>>]
    /\ taskPc' = [taskPc EXCEPT !["receiver"] = 1]
    /\ guards' = [guards EXCEPT !["receiver"] = {}]
    /\ UNCHANGED abort_requested
    /\ LockUnused

LocksInit == Init

LocksNext ==
    \/ \E t \in Tasks : \E path \in PathsOf(t) : BeginPath(t, path)
    \/ \E t \in Tasks : Acquire(t)
    \/ \E t \in Tasks : Release(t)
    \/ \E t \in Tasks : Resume(t)
    \/ AbortReceiver
    \/ Cancelled

SpecLocks == LocksInit /\ [][LocksNext]_vars

\* ------------------------------------------------ the command interceptor
\* src/src/interceptor.rs.  Bytes are numbers, and so are the chars of the
\* buffer: process_reading pushes `byte as char`, the char whose code point
\* is the byte's value.
SLASH == 47

LF == 10

CR == 13

DEL == 127

BS == 8

SPACE == 32

\* "nexo "
COMMAND_PREFIX == <<110, 101, 120, 111, SPACE>>

\* the lines typed, each from the start of a line:
\*   /nexo\n   /NEXO \r   /nexo help\n   /nexo x\n   /x\n   a/nexo\n
\*   /a DEL x\n   / BS   / 0xC3 0xA9 \n (a slash line with an e-acute)   /ne
TypedLines ==
    {<<SLASH, 110, 101, 120, 111, LF>>,
     <<SLASH, 78, 69, 88, 79, SPACE, CR>>,
     <<SLASH, 110, 101, 120, 111, SPACE, 104, 101, 108, 112, LF>>,
     <<SLASH, 110, 101, 120, 111, SPACE, 120, LF>>,
     <<SLASH, 120, LF>>,
     <<97, SLASH, 110, 101, 120, 111, LF>>,
     <<SLASH, 97, DEL, 120, LF>>,
     <<SLASH, BS>>,
     <<SLASH, 195, 169, LF>>,
     <<SLASH, 110, 101>>}

\* char::to_lowercase on the chars a byte can become (U+0000 to U+00FF)
to_lowercase(c) ==
    IF (c >= 65 /\ c <= 90) \/ (c >= 192 /\ c <= 222 /\ c # 215)
    THEN c + 32
    ELSE c

\* char::is_whitespace on those chars
is_whitespace(c) == c \in {9, 10, 11, 12, 13, SPACE, 133, 160}

RECURSIVE trim_start(_)
trim_start(s) ==
    IF s # <<>> /\ is_whitespace(Head(s)) THEN trim_start(Tail(s)) ELSE s

RECURSIVE trim_end(_)
trim_end(s) ==
    IF s # <<>> /\ is_whitespace(s[Len(s)])
    THEN trim_end(SubSeq(s, 1, Len(s) - 1))
    ELSE s

\* str::trim
trim(s) == trim_end(trim_start(s))

\* str::starts_with
starts_with(s, prefix) ==
    Len(s) >= Len(prefix) /\ SubSeq(s, 1, Len(prefix)) = prefix

\* String::bytes: the UTF-8 encoding of the chars of the buffer
RECURSIVE bytes(_)
bytes(s) ==
    IF s = <<>> THEN <<>>
    ELSE (IF Head(s) < 128
          THEN <<Head(s)>>
          ELSE <<192 + (Head(s) \div 64), 128 + (Head(s) % 64)>>)
         \o bytes(Tail(s))

\* match_command: the command the buffer names, or "None"
match_command(buf) ==
    LET input == [i \in 1..Len(buf) |-> to_lowercase(buf[i])]
        nexo == SubSeq(COMMAND_PREFIX, 1, 4)
        cmd == trim(SubSeq(input, Len(COMMAND_PREFIX) + 1, Len(input)))
    IN  IF trim(input) = nexo THEN "Help"
        ELSE IF ~starts_with(input, COMMAND_PREFIX) THEN "None"
        ELSE IF cmd = <<97, 116, 116, 97, 99, 104>> THEN "Attach"
        ELSE IF cmd = <<100, 101, 116, 97, 99, 104>> THEN "Detach"
        ELSE IF cmd = <<115, 116, 97, 116, 117, 115>> THEN "Status"
        ELSE IF cmd = <<104, 101, 108, 112>> THEN "Help"
        ELSE IF cmd = <<>> THEN "Help"
        ELSE "None"

InterceptUnused ==
    UNCHANGED <<clientVars, appVars, envVars, backoffVars, queueGhostVars,
                now, ticks, produced, bursts, sockets, exitVars, keyVars,
                cryptoVars, guestVars, authVars, credVars, termVars,
                startVars, loopVars, lockVars>>

\* process_normal
process_normal(byte) ==
    IF byte = SLASH /\ at_line_start
    THEN /\ interceptor_state' = "ReadingCommand"
         /\ buffer' = <<>>
         /\ UNCHANGED <<at_line_start, forward, cmd_rx>>
    ELSE /\ at_line_start' = (byte \in {LF, CR})
         /\ forward' = Append(forward, byte)
         /\ UNCHANGED <<interceptor_state, buffer, cmd_rx>>

\* process_reading
process_reading(byte) ==
    IF byte \in {LF, CR}
    THEN /\ interceptor_state' = "Normal"
         /\ at_line_start' = TRUE
         /\ IF match_command(buffer) # "None"
            THEN /\ cmd_rx' = Append(cmd_rx, match_command(buffer))
                 /\ UNCHANGED <<buffer, forward>>
            ELSE /\ forward' = forward \o <<SLASH>> \o bytes(buffer)
                                  \o <<byte>>
                 /\ buffer' = <<>>
                 /\ UNCHANGED cmd_rx
    ELSE IF byte \in {DEL, BS}
    THEN IF buffer = <<>>
         THEN /\ interceptor_state' = "Normal"
              /\ forward' = forward \o <<SLASH, byte>>
              /\ UNCHANGED <<buffer, at_line_start, cmd_rx>>
         ELSE /\ buffer' = SubSeq(buffer, 1, Len(buffer) - 1)
              /\ UNCHANGED <<interceptor_state, forward, at_line_start,
                             cmd_rx>>
    ELSE /\ buffer' = Append(buffer, byte)
         /\ UNCHANGED <<interceptor_state, forward, at_line_start, cmd_rx>>

\* the user starts to type one of the lines; a line starts where the last
\* one ended, so a line that did not end in a newline is typed on
TypeLine(line) ==
    /\ typing = <<>>
    /\ lines_typed < MaxLines
    /\ typing' = line
    /\ lines_typed' = lines_typed + 1
    /\ UNCHANGED <<interceptor_state, buffer, at_line_start, forward, cmd_rx>>
    /\ InterceptUnused

\* process, one byte of its input: process_byte and what process does with
\* the result
ProcessByte ==
    /\ typing # <<>>
    /\ typing' = Tail(typing)
    /\ IF interceptor_state = "Normal"
       THEN process_normal(Head(typing))
       ELSE process_reading(Head(typing))
    /\ UNCHANGED lines_typed
    /\ InterceptUnused

\* check_timeout once COMMAND_TIMEOUT_MS have passed since the slash:
\* flush_buffer
CheckTimeout ==
    /\ interceptor_state = "ReadingCommand"
    /\ interceptor_state' = "Normal"
    /\ at_line_start' = FALSE
    /\ forward' = forward \o <<SLASH>> \o bytes(buffer)
    /\ buffer' = <<>>
    /\ UNCHANGED <<cmd_rx, typing, lines_typed>>
    /\ InterceptUnused

InterceptInit == Init

InterceptNext ==
    \/ \E line \in TypedLines : TypeLine(line)
    \/ ProcessByte
    \/ CheckTimeout

SpecIntercept == InterceptInit /\ [][InterceptNext]_vars
\* ------------------------------------------------------------- C1
\* C1: the outgoing message queue never holds more than MAX_QUEUE_SIZE (100)
\* entries, after any enqueue, drain or re-queue of a failed drain.
C1_QueueBounded == Len(message_queue) <= MAX_QUEUE_SIZE

\* the queue is full and entries have been evicted from its front
C1_Witness ==
    /\ Len(message_queue) = MAX_QUEUE_SIZE
    /\ produced > MAX_QUEUE_SIZE
    /\ Head(message_queue).message.id > 1

\* ------------------------------------------------------------- C2
\* C2: no queued entry that is MAX_QUEUE_AGE (5 minutes) old or older is
\* written to the socket: every entry a drain wrote was younger than that when
\* the drain ran, and every entry left in the queue by an enqueue was younger
\* than that when the enqueue ran (the expired ones are discarded at both).
C2_NoExpiredDelivered ==
    /\ \A i \in 1..Len(lastDrain) :
           lastDrainAt - lastDrain[i].timestamp < MAX_QUEUE_AGE
    /\ \A i \in 1..Len(message_queue) :
           lastEnqueueAt - message_queue[i].timestamp < MAX_QUEUE_AGE

\* a drain dropped expired entries and wrote younger ones
C2_Witness ==
    /\ lastDrainDropped > 0
    /\ Len(lastDrain) > 0
    /\ lastDrainAt >= MAX_QUEUE_AGE

\* ------------------------------------------------------------- C3
\* C3: one message enqueued while the queue holds MAX_QUEUE_SIZE unexpired
\* entries evicts the head; the new message is the tail and the survivors keep
\* their order.
C3_EvictOldest ==
    [][ ( /\ ~is_connected
          /\ produced' = produced + 1
          /\ Len(message_queue) = MAX_QUEUE_SIZE
          /\ \A i \in 1..Len(message_queue) : Fresh(message_queue[i], now) )
        => message_queue' =
               Append(Tail(message_queue),
                      QueuedMessage(OutputMsg(produced + 1), now)) ]_vars

\* a queue of MAX_QUEUE_SIZE entries took one more message: output 1 is gone
\* from the head and the newest output is the tail
C3_Witness ==
    /\ lastBurst = 1
    /\ lastEnqueueLen = MAX_QUEUE_SIZE
    /\ lastEnqueueAt = now
    /\ Len(message_queue) = MAX_QUEUE_SIZE
    /\ message_queue[1].message.id = 2
    /\ message_queue[MAX_QUEUE_SIZE].message.id = produced

\* ------------------------------------------------------------- C4
\* C4: on every successful connect and reconnect, session_attach is the first
\* frame written to the new socket; queued messages are drained after it.
C4_AttachFirst ==
    (\E i \in 1..Len(wire) : wire[i] = SessionAttach) => wire[1] = SessionAttach

\* a reconnect succeeded with an output in the queue
C4_Witness ==
    /\ connection_state = "Attached"
    /\ sockets > 1
    /\ Len(wire) = 2
    /\ wire[1].kind = "output"
    /\ wire[2] = SessionAttach

\* ------------------------------------------------------------- C5
\* C5: the outputs produced after the socket was severed while Attached are
\* all delivered once a reconnect has succeeded: whenever the runtime is
\* Attached on a healthy socket with nothing pending, every output produced
\* so far has been delivered.  (Under SpecOutage the network's cuts are the
\* only disturbance, so an output not sent at once was produced in an outage.)
C5_OutageOutputDelivered ==
    ( /\ connection_state = "Attached"
      /\ mainPc = "select"
      /\ sock = "alive"
      /\ is_connected
      /\ recv_result = "idle"
      /\ message_queue = <<>> )
    => \A id \in 1..produced : \E i \in 1..Len(delivered) : delivered[i] = id

\* ------------------------------------------------------------- C6
\* C6: the outputs that reach the relay reach it in the order the PTY
\* produced them, whether sent directly or queued and drained, across drains
\* that fail part-way and across reconnects.
C6_OutputOrder ==
    \A i, j \in 1..Len(delivered) : i < j => delivered[i] < delivered[j]

\* output 2 was drained from the queue onto a new socket after output 1 had
\* been delivered on an earlier one
C6_Witness ==
    /\ delivered = <<1, 2>>
    /\ connection_state = "Attached"
    /\ wire = <<OutputMsg(2), SessionAttach>>

C7_DelayInStatedInterval ==
    delay_attempt \in 1..MAX_RECONNECT_ATTEMPTS =>
        /\ BaseDelay(delay_attempt) <= delay_ms
        /\ delay_ms <= BaseDelay(delay_attempt) + JITTER_RANGE_MS
        /\ 0 <= delay_ms
        /\ delay_ms <= MAX_BACKOFF_MS

\* C7 (amended): the delay slept before attempt n in 1..10 lies in
\* [min(500*2^(n-1), 30000), min(500*2^(n-1)+1000, 30000)] milliseconds: both
\* ends of the jittered interval are capped, so from attempt 7 on the delay
\* is exactly 30000.
C7_DelayInCappedInterval ==
    delay_attempt \in 1..MAX_RECONNECT_ATTEMPTS =>
        /\ Min(BaseDelay(delay_attempt), MAX_BACKOFF_MS) <= delay_ms
        /\ delay_ms <= Min(BaseDelay(delay_attempt) + JITTER_RANGE_MS,
                           MAX_BACKOFF_MS)

\* the tenth attempt sleeps the capped delay
C7_Witness ==
    /\ delay_attempt = MAX_RECONNECT_ATTEMPTS
    /\ delay_ms = MAX_BACKOFF_MS

\* ------------------------------------------------------------- C8
\* C8 (as stated): once the 10th consecutive reconnect attempt has failed the
\* runtime gives up: the state is Detached and no further attempt is made.
C8_GivesUpAfterTen ==
    /\ (reconnect_attempt >= MAX_RECONNECT_ATTEMPTS /\ mainPc = "select")
           => connection_state = "Detached"
    /\ failures <= MAX_RECONNECT_ATTEMPTS

\* C8 (amended): the existing client's reconnect() makes at most 10
\* consecutive attempts, but the runtime does not give up: a failed call of
\* handle_reconnection_silent leaves the connection state as it was, and
\* Reconnecting turns into Detached only through the receiver task (a closed
\* stream), never through a failed attempt.
C8_NeverGivesUp ==
    /\ [](reconnect_attempt <= MAX_RECONNECT_ATTEMPTS)
    /\ [][failures' > failures => connection_state' = connection_state]_vars
    /\ [][(connection_state = "Reconnecting" /\ connection_state' = "Detached")
            => recv_result = "closed"]_vars

\* an eleventh call of handle_reconnection_silent has failed after reconnect()
\* had used up its 10 attempts, and the state is still Reconnecting
C8_Witness ==
    /\ failures > MAX_RECONNECT_ATTEMPTS
    /\ reconnect_attempt = MAX_RECONNECT_ATTEMPTS
    /\ connection_state = "Reconnecting"
    /\ mainPc = "select"

\* ------------------------------------------------------------- C9
\* C9: after the socket is lost while Attached, with the relay reachable
\* again and the credentials valid, the state eventually returns to Attached
\* on a working socket while the child keeps running.
C9_EventuallyReattached ==
    [](sock = "severed" => <>(connection_state = "Attached" /\ sock = "alive"))


\* ------------------------------------------------ connection-state changes
\* C11: every change of the connection state is one of the stated
\* transitions: to Attached on a successful handshake (a new socket carrying
\* session_attach), to Detached on a clean close (the server's close frame,
\* or the host's own close at shutdown), to Reconnecting on a receive error
\* or on the end of a socket the network has cut; nothing else changes it.
C11_OnlyStatedTransitions ==
    [][connection_state' # connection_state =>
         \/ /\ connection_state' = "Attached"
            /\ sockets' = sockets + 1
            /\ Len(wire') > 0
            /\ wire'[Len(wire')] = SessionAttach
         \/ /\ connection_state' = "Detached"
            /\ \/ recv_result = "closed" /\ sock = "closed"
               \/ mainPc' = "done"
         \/ /\ connection_state' = "Reconnecting"
            /\ \/ recv_result = "error"
               \/ recv_result = "closed" /\ sock = "severed"]_vars

\* C12: an output frame is written to the relay only while the connection
\* state is Attached: whenever a handler writes output to a live socket, the
\* state it runs in is Attached.
C12_OutputOnlyWhenAttached ==
    [][delivered' # delivered => connection_state = "Attached"]_vars

\* ------------------------------------------------------- the end of run()
\* C13: on graceful close session_detach is written before the WebSocket
\* close frame, and the PTY-input channel is closed only after close() has
\* returned, with nothing written to the socket at or after that point.
C13_CloseOrder ==
    /\ [](\A i, j \in 1..Len(wire) :
            wire[i] = SessionDetach /\ wire[j] = CloseFrame => i < j)
    /\ [][pty_input' = "closed"
            => (wire' = wire /\ mainPc \in {"closed", "done"})]_vars

\* a graceful close on a healthy connection: session_detach, the close frame,
\* then the PTY-input channel closed
C13_Witness ==
    /\ pty_input = "closed"
    /\ run_result.tag = "Ok"
    /\ Len(wire) >= 2
    /\ wire[Len(wire) - 1] = SessionDetach
    /\ wire[Len(wire)] = CloseFrame

\* C14 as stated: the main loop ends only when the PTY reader has reported
\* child EOF or a fatal PTY error on the shutdown channel.
C14_LoopEndsOnlyOnPtyReport ==
    [][(mainPc \in {"select", "fresh"} /\ mainPc' \notin {"select", "fresh"})
         => (shutdown_rx # <<>> /\ reader # "reading")]_vars

\* C14: no transport error ends the main loop or touches the child: the loop
\* ends when the shutdown arm receives the PTY reader's report, or when
\* writing PTY output to the local terminal fails and run() returns that I/O
\* error; the child's status changes in no step that touches the transport.
C14_TransportErrorsContained ==
    /\ [][(mainPc \in {"select", "fresh"} /\ mainPc' \notin {"select", "fresh"})
            => (\/ (mainPc' = "cleanup" /\ shutdown_rx # <<>>
                                        /\ reader # "reading")
                \/ (mainPc' = "failed" /\ run_result'.tag = "IoError"))]_vars
    /\ [][child' # child => UNCHANGED <<clientVars, appVars, envVars>>]_vars
    /\ [](run_result.tag # "WebSocketError")

\* a reconnect round has failed, the socket is cut, and the loop then ended on
\* the reader's report
C14_Witness ==
    /\ run_result.tag = "Ok"
    /\ failures > 0
    /\ sock = "severed"
    /\ reader = "eof"

\* C15: when the child has exited and run() has returned on the reader's EOF,
\* the process exit code is the child's exit code.
C15_ExitCodeIsChilds ==
    (run_result.tag = "Ok" /\ reader = "eof") =>
        run_cli(run_result) = child.code

\* ------------------------------------------------- end-to-end encryption
\* the output frames the host has written to the socket or holds queued
OutputFrames ==
    {wire[i] : i \in {j \in 1..Len(wire) : wire[j].kind = "output"}}
    \cup {message_queue[i].message : i \in 1..Len(message_queue)}

\* C16: every output frame sent or queued carries the session id, and the
\* AEAD envelope of its chunk under a session key, and nothing else: no field
\* holds the chunk's bytes, and the ciphertext is not the chunk.
C16_OutputAlwaysEncrypted ==
    \A f \in OutputFrames :
        /\ DOMAIN f = {"kind", "id", "session_id", "encrypted"}
        /\ \E key \in SessionKeys, nonce \in Nonces :
             f.encrypted = encrypt_content(key, chunks[f.id], nonce)
        /\ base64_decode(f.encrypted.ciphertext).bytes # chunks[f.id]

\* one output frame written to the socket, another one queued
C16_Witness ==
    /\ \E i \in 1..Len(wire) : wire[i].kind = "output"
    /\ Len(message_queue) > 0

\* C17: a cached session key is the key derived from the MEK that is set and
\* the session id, at any time, set_mek running concurrently included.
C17_CachedKeyMatchesMek ==
    session_key.some =>
        (mek.some /\ session_key.v = derive_session_key(mek.v, session_id))

\* ------------------------------------- encrypt_content and decrypt_content
\* C18: decrypting an envelope with the session key it was encrypted with,
\* derive_session_key(M, S), returns exactly the plaintext.
C18_RoundTrip ==
    (decrypted.some /\ dec_key = derive_session_key(enc_mek, enc_session)) =>
        (decrypted.v.ok /\ decrypted.v.bytes = enc_plain)

\* a two-byte plaintext came back from its envelope
C18_Witness ==
    /\ decrypted.some
    /\ dec_key = derive_session_key(enc_mek, enc_session)
    /\ Len(enc_plain) = 2
    /\ decrypted.v.bytes = enc_plain

\* C19: decrypting an envelope with any key other than the one it was
\* encrypted with fails, and yields no plaintext.
C19_WrongKeyFails ==
    (decrypted.some /\ dec_key # derive_session_key(enc_mek, enc_session)) =>
        (~decrypted.v.ok /\ decrypted.v.bytes = <<>>)

\* a nonempty plaintext's envelope was refused under another MEK's key
C19_Witness ==
    /\ decrypted.some
    /\ dec_key = derive_session_key(3 - enc_mek, enc_session)
    /\ enc_plain # <<>>
    /\ ~decrypted.v.ok

\* --------------------------------------------- incoming messages that fail
\* the session key the host's caller holds when it decrypts
KeyInHand == IF userPc = "derived" THEN userKey ELSE session_key.v

\* C20: a message whose decryption fails is discarded.  On the host, when the
\* incoming-message arm has taken a prompt that does not decrypt, nothing is
\* sent on the PTY-input channel, the connection state and the main loop are
\* unchanged and the other prompts stay in the channel.  On the guest, stdout
\* holds exactly the plaintexts of the envelopes that decrypt, in order, and
\* the event loop goes on.
C20_FailedDecryptDiscarded ==
    /\ [][(Len(ws_msg_rx') < Len(ws_msg_rx)
           /\ ~decrypt_prompt(KeyInHand, Head(ws_msg_rx)).ok)
          => (/\ pty_input_rx' = pty_input_rx
              /\ ws_msg_rx' = Tail(ws_msg_rx)
              /\ connection_state' = connection_state
              /\ mainPc' = mainPc)]_vars
    /\ [](guest_running
          /\ guest_stdout =
               LET ok == SelectSeq(guest_seen, LAMBDA e :
                             decrypt_content(GuestSessionKey, e).ok)
               IN  [i \in 1..Len(ok) |->
                       decrypt_content(GuestSessionKey, ok[i]).bytes])

\* the guest was sent one output that does not decrypt and wrote nothing; the
\* host was sent one prompt that does not decrypt, has taken it and has passed
\* nothing on
C20_Witness ==
    /\ prompts = 2
    /\ Len(guest_seen) = 1
    /\ guest_stdout = <<>>
    /\ guest_running
    /\ ws_msg_rx = <<>>
    /\ userPc = "idle"
    /\ pty_input_rx = <<>>
    /\ connection_state = "Attached"

\* ------------------------------------------------------- the device flow
\* C21: consecutive token requests of one polling run are separated by at
\* least the interval in force, which after a slow_down answer is the
\* previous interval plus 5 seconds.
C21_PollsSpacedByInterval ==
    poll_gap.some => poll_gap.ms >= poll_gap.interval * 1000

\* C22: when the token endpoint answers expired_token, authenticate() does
\* not return: it goes back to requesting a device code, ExpiredToken is
\* never its result, the device code it gets then is a new one, and the next
\* token request is made with that new code.
C22_ExpiredTokenRestartsFlow ==
    /\ [](auth_result # "ExpiredToken")
    /\ [][(polls' # polls /\ last_poll'.answer = "expired_token")
          => (authPc' = "start" /\ auth_result' = "none")]_vars
    /\ [][(authPc = "start" /\ authPc' = "poll")
          => (/\ device_flows' = device_flows + 1
              /\ device_code' # device_code
              /\ elapsed_ms' = 0
              /\ ticks_until_poll' = 0)]_vars
    /\ [][polls' # polls
          => (/\ last_poll'.code = device_code
              /\ last_poll.answer = "expired_token"
                   => last_poll'.code > last_poll.code)]_vars

\* the first device code was answered expired_token and a token request has
\* been made with the second
C22_Witness ==
    /\ device_flows = 2
    /\ last_poll.some
    /\ last_poll.after = "expired_token"
    /\ last_poll.code = 2
    /\ polls = 2

\* C37: the terminal is in raw mode only while poll_for_token runs: whenever
\* it has returned, raw mode is disabled and the cursor is shown.
C37_RawModeOnlyWhilePolling ==
    authPc # "poll" => (~tty_raw /\ ~cursor_hidden)

\* ------------------------------------------------------ the start of run()
\* C23: when the user presses ESC while the device flow polls, the
\* authentication attempt is Offline, without an access token and without
\* the offline warning; run() does not return there but goes on to the
\* session id, and once its main loop runs the child is spawned without a
\* hook token, the terminal is in raw mode and there is no relay connection.
\* Before the child is spawned only a failure of the store, of the terminal
\* or of the spawn ends run().
C23_SkipContinuesOffline ==
    /\ [](ensure_log.flow = "esc"
          => (/\ attempt.tag = "Offline"
              /\ ~attempt.token.some
              /\ attempt.mek.some
              /\ ~attempt.warned))
    /\ [][(startPc = "auth" /\ ensure_log'.flow = "esc")
          => (startPc' = "session" /\ run_result' = run_result)]_vars
    /\ []((ensure_log.flow = "esc" /\ startPc = "running")
          => (/\ spawned
              /\ ~hook_token.some
              /\ term = "alive" /\ tty_raw
              /\ ws_client = "None"
              /\ connection_state = "Detached"
              /\ sockets = 0))
    /\ []((ensure_log.flow = "esc" /\ startPc = "ended" /\ ~spawned)
          => run_result.tag \in {"KeychainError", "IoError", "SpawnError"})

\* ESC was pressed and the main loop runs
C23_Witness ==
    /\ ensure_log.flow = "esc"
    /\ startPc = "running"
    /\ spawned
    /\ attempt.tag = "Offline"

\* C24: when a refresh is answered invalid_grant, the stored tokens are
\* cleared and the device flow is run; a rejected token pair is not in the
\* store afterwards and is never again sent to the refresh endpoint or used
\* as the access token.
C24_RejectedTokensClearedAndUnused ==
    /\ ensure_log.invalid_grant
         => (ensure_log.cleared /\ ensure_log.flow # "none")
    /\ ~(stored_tokens.some /\ stored_tokens.v \in rejected)
    /\ ~reuse

\* C25: get_or_create_session_id() returns the stored session id, and leaves
\* the store alone, when resume is asked for and an id is stored; otherwise
\* the id it returns is a new one, and it is the stored id from then on.  When
\* it fails run() has no session id.
C25_SessionIdReusedOrStored ==
    session_log.called =>
        IF ~session_log.ok
        THEN ~run_session.some /\ stored_session = session_log.before
        ELSE IF session_log.resume /\ session_log.before.some
        THEN /\ run_session = session_log.before
             /\ stored_session = session_log.before
        ELSE /\ run_session.some
             /\ run_session.v = next_session - 1
             /\ run_session # session_log.before
             /\ stored_session = run_session

\* the second start asked to resume and uses the id the first start stored
C25_Witness ==
    /\ runs = 2
    /\ session_log.called /\ session_log.ok
    /\ session_log.resume
    /\ session_log.before.some
    /\ run_session = session_log.before
    /\ startPc = "running"

\* C28: once the TerminalManager is gone, on whichever path run() ended, the
\* terminal is out of raw mode and bracketed paste is off.
C28_RawModeRestored ==
    term = "dropped" => (~tty_raw /\ ~tty_paste)

\* ------------------------------------------------- the guest's event loop
\* the envelopes the guest received that decrypt under its key, in the order
\* of arrival and, within a history batch, of the batch
GuestReadable ==
    SelectSeq(guest_seen, LAMBDA e : decrypt_content(GuestSessionKey, e).ok)

\* C26: stdout holds the plaintexts of the history entries in the order of
\* the batch, and every entry of a batch is written before the live output
\* that arrives after it: stdout is, plaintext by plaintext, the readable
\* envelopes in the order received, all of them while the event loop runs
\* and a leading part of them once a write to stdout has failed.
C26_HistoryInOrderBeforeLive ==
    LET readable == GuestReadable
    IN  /\ Len(guest_stdout) <= Len(readable)
        /\ \A i \in 1..Len(guest_stdout) :
              guest_stdout[i] = decrypt_content(GuestSessionKey, readable[i]).bytes
        /\ guest_running => Len(guest_stdout) = Len(readable)
        /\ Len(guest_kinds) = Len(guest_seen)

\* a history batch of A and B, then the live output C: stdout is A, B, C
C26_Witness ==
    /\ guest_kinds = <<"history", "history", "output">>
    /\ guest_seen = <<GuestA, GuestB, GuestC>>
    /\ guest_stdout = <<<<65>>, <<66>>, <<67>>>>
    /\ guest_running

\* a step of the keyboard arm on the key
KeyStep(key) == keys' # keys /\ last_key' = key

\* C27 as stated: a prompt is sent only on Enter, and each Enter sends the
\* accumulated text and a newline as one prompt and empties the accumulator.
C27_EveryEnterSendsOnePrompt ==
    /\ [][guest_sent' # guest_sent => KeyStep("Enter")]_vars
    /\ [][KeyStep("Enter")
          => (/\ Len(guest_sent') = Len(guest_sent) + 1
              /\ PromptText(guest_sent'[Len(guest_sent')])
                   = Append(input_buffer, 10)
              /\ input_buffer' = <<>>)]_vars

\* C27, amended: a prompt frame is sent only when Enter is pressed on an
\* accumulator that is not empty; such an Enter empties the accumulator and
\* sends at most one frame, which decrypts to the accumulated text followed
\* by a newline (none when the send fails); Enter on an empty accumulator
\* sends nothing; every other key or paste leaves the frames sent unchanged
\* and only adds to the accumulator.
C27_PromptOnlyOnEnter ==
    /\ [][guest_sent' # guest_sent
          => (KeyStep("Enter") /\ input_buffer # <<>>)]_vars
    /\ [][(KeyStep("Enter") /\ input_buffer # <<>>)
          => (/\ input_buffer' = <<>>
              /\ \/ guest_sent' = guest_sent
                 \/ /\ Len(guest_sent') = Len(guest_sent) + 1
                    /\ SubSeq(guest_sent', 1, Len(guest_sent)) = guest_sent
                    /\ PromptText(guest_sent'[Len(guest_sent')])
                         = Append(input_buffer, 10))]_vars
    /\ [][(KeyStep("Enter") /\ input_buffer = <<>>)
          => (input_buffer' = <<>> /\ guest_sent' = guest_sent)]_vars
    /\ [][(keys' # keys /\ last_key' # "Enter")
          => (/\ guest_sent' = guest_sent
              /\ Len(input_buffer') >= Len(input_buffer)
              /\ SubSeq(input_buffer', 1, Len(input_buffer)) = input_buffer)]_vars

\* a key and a paste were accumulated and Enter sent them as one prompt
C27_Witness ==
    /\ keys = 3
    /\ last_key = "Enter"
    /\ input_buffer = <<>>
    /\ Len(guest_sent) = 1
    /\ PromptText(guest_sent[1]) = <<97, 98, 99, 10>>

\* C34: the guest session ends only on a session_detached message, a close
\* or error of the connection, or Ctrl-Q (or when stdout cannot be written);
\* a native WebSocket ping or pong does not end the guest loop.
C34_GuestEndsOnlyOnDetachCloseQuit ==
    ~guest_running
       => guest_end \in {"detached", "closed", "error", "ctrl_q", "write_failed"}

\* C36: every JSON ping message received is answered with one pong frame: by
\* the guest, whose pong frames are as many as the pings it has handled, and
\* by the host, whose incoming-message arm writes or queues a pong for each
\* ping it takes.
C36_EveryPingAnswered ==
    /\ [](Len(SelectSeq(guest_frames, LAMBDA f : f = "pong")) = guest_pings)
    /\ [][ws_msgs' < ws_msgs
          => \/ wire' = Append(wire, Pong)
             \/ /\ message_queue' # <<>>
                /\ message_queue'[Len(message_queue')].message = Pong]_vars

\* ------------------------------------------------- the main loop in time
\* C29: the main loop never blocks beyond its 10 ms timer: a chunk in the
\* PTY-output channel is received within 10 ms of its arrival, also while a
\* reconnect attempt with its backoff sleep is in progress.
C29_OutputServicedWithinTick ==
    output_rx # <<>> => clock_ms - Head(output_rx).at <= TICK_MS

\* C30: a connection attempt is started only by the tick arm and only while
\* the connection state is Reconnecting.
C30_AttemptsOnlyWhileReconnecting ==
    attempt_log.some => attempt_log.state = "Reconnecting"

\* a step of the tick arm: the select's 10 ms sleep has ended
TickStepTaken ==
    /\ loopPc = "select"
    /\ output_rx' = output_rx
    /\ clock_ms' = clock_ms
    /\ (select_at' # select_at \/ loopPc' = "checked")

\* handle_reconnection_silent() returns on an authentication error
AuthErrorReturn ==
    /\ loopPc = "fresh"
    /\ loopPc' = "select"
    /\ attempt_log'.kind = "auth_error"

\* C31 as stated: an authentication error during a reconnect attempt leaves
\* the connection state Detached, and the next tick retries.
C31_AuthErrorLeavesDetached ==
    [][AuthErrorReturn => connection_state' = "Detached"]_vars

\* C31, amended: an authentication error during a reconnect attempt leaves
\* the connection state as it was (Reconnecting, unless the receiver task has
\* stored another state meanwhile), keeps the client and doubles the tick
\* arm's backoff up to 60 s; a tick starts the next attempt exactly when it
\* reads the state Reconnecting with the backoff elapsed.
C31_AuthErrorKeepsStateAndRetries ==
    /\ [][AuthErrorReturn
          => (/\ connection_state' = connection_state
              /\ ws_client' = ws_client
              /\ reconnect_backoff_secs'
                   = Min(2 * reconnect_backoff_secs, MAX_RECONNECT_BACKOFF_SECS)
              /\ ~attempt_log'.some)]_vars
    /\ [][(TickStepTaken /\ failures < MaxFailures)
          => (loopPc' = "checked"
                <=> (connection_state = "Reconnecting" /\ AttemptDue))]_vars
    /\ [][loopPc' = "checked" /\ loopPc # "checked" => TickStepTaken]_vars

\* after an authentication error the state is still Reconnecting and, two
\* seconds later, the tick arm has started the next attempt
C31_Witness ==
    /\ attempt_log.kind = "auth_error"
    /\ failures = 1
    /\ reconnect_backoff_secs = 2
    /\ connection_state = "Reconnecting"
    /\ loopPc = "checked"

\* ------------------------------------------------- sends, pings and the state
\* C32: when send_output fails to write an output message to the socket, the
\* message is in the outgoing queue afterwards.
C32_FailedSendIsQueued ==
    [][(/\ produced' = produced + 1
        /\ connection_state = "Attached"
        /\ ws_client = "Some"
        /\ is_connected
        /\ sock # "alive")
       => \E i \in 1..Len(message_queue') :
             message_queue'[i].message = OutputMsg(produced')]_vars

\* the receiver task holds the result of a recv() that answered a native
\* WebSocket ping on the live, connected socket
NativePingInHand ==
    /\ recv_result = "closed"
    /\ sock = "alive"
    /\ is_connected
    /\ wire # <<>>
    /\ wire[Len(wire)].kind = "ws_pong"

\* C33: a native WebSocket ping received on an Attached connection is
\* answered with a native pong and leaves the connection state Attached.
C33_NativePingKeepsAttached ==
    /\ [][(recv_result = "idle" /\ recv_result' # "idle"
           /\ inbound' # inbound /\ Len(wire') > Len(wire))
          => wire'[Len(wire')].kind = "ws_pong"]_vars
    /\ [][(NativePingInHand /\ connection_state = "Attached"
           /\ recv_result' = "idle")
          => connection_state' = "Attached"]_vars

\* C35: once a receive error has set the state to Reconnecting, only the
\* tick arm's reconnect attempt (or the end of the session) changes it: the
\* receiver task never overwrites Reconnecting with Detached.
C35_ReconnectingNotOverwritten ==
    [][(connection_state = "Reconnecting" /\ connection_state' = "Detached")
       => mainPc' = "done"]_vars

\* C38 (as stated): no task is parked in a socket receive or in a sleep
\* while it holds the guard of the shared transport client.
C38_ClientGuardNotHeldAcrossAwait ==
    \A t \in Tasks :
        (Suspended(t) /\ NextOp(t)[2] \in {"socket_recv", "sleep"})
            => "ws_client" \notin guards[t]

\* C39: no task waits for a mutex it holds itself or one whose owner is
\* itself waiting for a mutex, a task that is on no path holds no guard, and
\* an aborted receiver leaves the run() task nothing to wait for.
C39_NoCircularWait ==
    /\ \A t \in Tasks :
           Blocked(t)
               => \A u \in HeldBy(NextOp(t)[2]) : u # t /\ ~Blocked(u)
    /\ \A t \in Tasks : Idle(t) => guards[t] = {}
    /\ abort_requested => Idle("main")

\* the run() task waits for the client guard during its shutdown while the
\* receiver task holds it across the socket receive
C39_Witness ==
    /\ taskPath["main"] \in shutdown_ops
    /\ Blocked("main")
    /\ NextOp("main") = Lock("ws_client")
    /\ NextOp("receiver") = Await("socket_recv")
    /\ "ws_client" \in guards["receiver"]

\* the bytes the interceptor is holding back: the slash and the buffer
Withheld ==
    IF interceptor_state = "ReadingCommand"
    THEN <<SLASH>> \o bytes(buffer)
    ELSE <<>>

\* C40 (as stated): every byte read is either forwarded or held back, in the
\* order typed and unchanged, and what is held back is dropped only when the
\* newline after a recognised command arrives.
C40_ForwardedByteForByte ==
    [][typing # <<>> /\ typing' = Tail(typing)
          => \/ forward' \o Withheld' = forward \o Withheld \o <<Head(typing)>>
             \/ /\ Len(cmd_rx') = Len(cmd_rx) + 1
                /\ forward' = forward
                /\ Withheld' = <<>>]_vars
=============================================================================
